---- MODULE Spec2Model ----
(***************************************************************************)
(* State-machine model of AITradingService                                 *)
(* (src/backend/app/services/ai_service.py): the train / infer state       *)
(* machine over the shared {model, scaler, feature_columns, is_trained}    *)
(* fields, signal construction, and the bar-by-bar backtest loop.          *)
(*                                                                         *)
(* Every coroutine of the service is `async def` but contains no           *)
(* suspension point of its own (get_market_data never awaits), so on the   *)
(* event loop one call runs to completion before the next starts: each     *)
(* handler is one action.  The backtest loop is unrolled into one step per *)
(* bar; no other handler is enabled while it runs.                         *)
(*                                                                         *)
(* Prices, ATR values, sizes, profits, balances and probabilities are      *)
(* doubles, and the arithmetic on them is the program's: IEEE 754 binary64 *)
(* operations, each rounded to the nearest double (section                 *)
(* "Double-precision arithmetic").                                         *)
(***************************************************************************)
EXTENDS Integers, Sequences, FiniteSets, TLC

(***************************************************************************)
(* Bounds of the model.                                                    *)
(***************************************************************************)
MaxTrainRuns == 2      \* train_model invocations explored per behaviour
MaxLoopBars == 3       \* bars the backtest loop runs over, at most
MaxRoundTrips == 11    \* trades completed in a long backtest run, at most
MaxMovingTrades == 2   \* of these, trades closed away from their entry price
MaxTailBars == 6       \* bars of a frame whose closes are tracked, at most
MaxRunBars == 6        \* bars of a backtest loop on a trained service, at most

(***************************************************************************)
(* Program constants.                                                      *)
(***************************************************************************)
MinTrainBars    == 100   \* train_model: len(df) < 100
MinTrainRows    == 100   \* train_model: len(df) < 100 after dropna
MinSignalBars   == 50    \* generate_signal: len(df) < 50
SignalBarCount  == 100   \* generate_signal: count=100
MinBacktestBars == 100   \* backtest_strategy: len(df) < 100
MinBacktestRows == 50    \* backtest_strategy: len(df) < 50
WarmupIndex     == 50    \* backtest_strategy: range(50, len(df))
InitialBalance  == 10000 \* backtest_strategy: initial_balance
SizeDivisor     == 10    \* backtest_strategy: balance * 0.1, 0.1 = 1 / 10
Lookahead       == 5     \* create_labels: lookahead
ThresholdInv    == 1000  \* create_labels: threshold = 0.001 = 1 / 1000
LongestWindow   == 50    \* calculate_technical_indicators: sma_50 window
AtrWindow       == 14    \* calculate_technical_indicators: average_true_range window
StopAtrMult     == 2     \* generate_signal: 2 * atr
TargetAtrMult   == 3     \* generate_signal: 3 * atr
AtrFallbackDiv  == 100   \* generate_signal: current_price * 0.01, 0.01 = 1 / 100
DetailLimit     == 10    \* backtest_strategy: trades[-10:]

SELL == -1
HOLD == 0
BUY  == 1

(***************************************************************************)
(* Small helpers.                                                          *)
(***************************************************************************)
Max(a, b) == IF a > b THEN a ELSE b

SeqToSet(s) == { s[i] : i \in 1..Len(s) }

RECURSIVE FilterIn(_, _)
\* [col for col in s if col in S]
FilterIn(s, S) ==
  IF s = << >> THEN << >>
  ELSE IF Head(s) \in S THEN << Head(s) >> \o FilterIn(Tail(s), S)
       ELSE FilterIn(Tail(s), S)

(***************************************************************************)
(* Double-precision arithmetic.  Every number the program computes with is *)
(* a Python float or numpy.float64: an IEEE 754 binary64 value, and every  *)
(* +, -, * and / rounds its exact result to the nearest such value, a tie  *)
(* going to the even significand.                                          *)
(*                                                                         *)
(* A finite value is s * m * 2^e: s its sign (-1, 0, 1), m a natural number *)
(* kept as a sequence of limbs (base 2^15 digits, lowest first; 0 is the   *)
(* empty sequence) and e an integer; m is odd, so that a value has one     *)
(* representation.  The values with m < 2^53 are the doubles; the exact    *)
(* sums and products written X... may have longer significands.  The       *)
(* exponent range of binary64 (overflow, subnormal numbers) is never       *)
(* reached by prices, balances and percentages and is not modelled.        *)
(* x / 0 is inf and 0 / 0 is nan, as numpy.float64 division gives them.    *)
(***************************************************************************)
LimbBits == 15
LimbBase == 32768
SignificandBits == 53

RECURSIVE NatOf(_)
\* The limbs of the natural number n.
NatOf(n) ==
  IF n = 0 THEN << >> ELSE << n % LimbBase >> \o NatOf(n \div LimbBase)

RECURSIVE NatTrim(_)
\* a without leading zero limbs.
NatTrim(a) ==
  IF a = << >> \/ a[Len(a)] # 0 THEN a ELSE NatTrim(SubSeq(a, 1, Len(a) - 1))

Limb(a, i) == IF i <= Len(a) THEN a[i] ELSE 0

RECURSIVE NatAddFrom(_, _, _, _)
NatAddFrom(a, b, i, c) ==
  IF i > Len(a) /\ i > Len(b) THEN (IF c = 0 THEN << >> ELSE << c >>)
  ELSE LET x == Limb(a, i) + Limb(b, i) + c
       IN  << x % LimbBase >> \o NatAddFrom(a, b, i + 1, x \div LimbBase)

\* a + b
NatAdd(a, b) == NatAddFrom(a, b, 1, 0)

RECURSIVE NatSubFrom(_, _, _, _)
NatSubFrom(a, b, i, c) ==
  IF i > Len(a) THEN << >>
  ELSE LET x == a[i] - Limb(b, i) - c
       IN  << x % LimbBase >> \o NatSubFrom(a, b, i + 1, IF x < 0 THEN 1 ELSE 0)

\* a - b, for a >= b
NatSub(a, b) == NatTrim(NatSubFrom(a, b, 1, 0))

RECURSIVE NatCmpFrom(_, _, _)
NatCmpFrom(a, b, i) ==
  IF i = 0 THEN 0
  ELSE IF a[i] < b[i] THEN -1
  ELSE IF a[i] > b[i] THEN 1
  ELSE NatCmpFrom(a, b, i - 1)

\* -1, 0, 1 as a < b, a = b, a > b
NatCmp(a, b) ==
  IF Len(a) < Len(b) THEN -1
  ELSE IF Len(a) > Len(b) THEN 1
  ELSE NatCmpFrom(a, b, Len(a))

RECURSIVE NatMulSmallFrom(_, _, _, _)
NatMulSmallFrom(a, k, i, c) ==
  IF i > Len(a) THEN (IF c = 0 THEN << >> ELSE << c >>)
  ELSE LET x == a[i] * k + c
       IN  << x % LimbBase >> \o NatMulSmallFrom(a, k, i + 1, x \div LimbBase)

\* a * k, for 0 <= k <= 2^15
NatMulSmall(a, k) == IF k = 0 THEN << >> ELSE NatMulSmallFrom(a, k, 1, 0)

\* a * 2^15
NatShiftLimb(a) == IF a = << >> THEN a ELSE << 0 >> \o a

RECURSIVE NatMulFrom(_, _, _)
NatMulFrom(a, b, j) ==
  IF j > Len(b) THEN << >>
  ELSE NatAdd(NatMulSmall(a, b[j]), NatShiftLimb(NatMulFrom(a, b, j + 1)))

\* a * b
NatMul(a, b) == NatMulFrom(a, b, 1)

\* a * 2^k
NatShl(a, k) ==
  IF a = << >> THEN a
  ELSE [i \in 1..(k \div LimbBits) |-> 0] \o NatMulSmall(a, 2 ^ (k % LimbBits))

RECURSIVE NatDivSmallFrom(_, _, _, _)
NatDivSmallFrom(a, d, i, r) ==
  IF i = 0 THEN << >>
  ELSE LET x == r * LimbBase + a[i]
       IN  Append(NatDivSmallFrom(a, d, i - 1, x % d), x \div d)

\* a \div d, for 0 < d <= 2^15
NatDivSmall(a, d) == NatTrim(NatDivSmallFrom(a, d, Len(a), 0))

\* a \div 2^k
NatShr(a, k) ==
  LET limbs == k \div LimbBits
  IN  IF limbs >= Len(a) THEN << >>
      ELSE NatDivSmall(SubSeq(a, limbs + 1, Len(a)), 2 ^ (k % LimbBits))

\* Bit j (the lowest is bit 0) of a.
NatBit(a, j) == (Limb(a, j \div LimbBits + 1) \div 2 ^ (j % LimbBits)) % 2

\* The number of bits of a: 0 for 0, otherwise 1 + floor(log2(a)).
NatBitLen(a) ==
  IF a = << >> THEN 0
  ELSE LimbBits * (Len(a) - 1)
       + (CHOOSE k \in 1..LimbBits : a[Len(a)] \div 2 ^ (k - 1) = 1)

\* The number of zero bits below the lowest one bit of a # 0.
NatTrailingZeros(a) ==
  LET i == CHOOSE j \in 1..Len(a) : a[j] # 0 /\ \A h \in 1..(j - 1) : a[h] = 0
  IN  LimbBits * (i - 1)
      + (CHOOSE k \in 0..(LimbBits - 1) :
           a[i] % 2 ^ (k + 1) # 0 /\ a[i] % 2 ^ k = 0)

RECURSIVE FitDigit(_, _, _)
\* The largest q <= guess with b * q <= r.
FitDigit(b, r, guess) ==
  IF NatCmp(NatMulSmall(b, guess), r) <= 0 THEN guess
  ELSE FitDigit(b, r, guess - 1)

RECURSIVE NatDivFrom(_, _, _, _)
\* Long division of limbs i..1 of a by b, r being what is left of the limbs
\* above them; the top limb of b is at least 2^14, so that the digit guessed
\* from the two top limbs of r is at most 2 too large.
NatDivFrom(a, b, i, r) ==
  IF i = 0 THEN [q |-> << >>, r |-> r]
  ELSE LET Digit(r1, n) ==
             LET Fitted(guess) ==
                   IF Len(r1) < n THEN 0
                   ELSE FitDigit(b, r1, IF guess >= LimbBase THEN LimbBase - 1
                                        ELSE guess)
                 Below(digit) ==
                   LET Joined(rest) == [q |-> Append(rest.q, digit), r |-> rest.r]
                   IN  Joined(NatDivFrom(a, b, i - 1,
                                         NatSub(r1, NatMulSmall(b, digit))))
             IN  Below(Fitted((Limb(r1, n + 1) * LimbBase + Limb(r1, n)) \div b[n]))
       IN  Digit(NatTrim(<< a[i] >> \o r), Len(b))

\* Quotient q and whether a remainder is left (r # 0) of a by b # 0.
NatDivMod(a, b) ==
  LET Trimmed(d) == [q |-> NatTrim(d.q), r |-> d.r]
      Divided(as, bs) == Trimmed(NatDivFrom(as, bs, Len(as), << >>))
      Normalized(s) == Divided(NatShl(a, s), NatShl(b, s))
  IN  Normalized(LimbBits - (NatBitLen(b) - LimbBits * (Len(b) - 1)))

Zero == [k |-> "num", s |-> 0, m |-> << >>, e |-> 0]

NaN == [k |-> "nan", s |-> 0, m |-> << >>, e |-> 0]

Inf(s) == [k |-> "inf", s |-> s, m |-> << >>, e |-> 0]

\* s * m * 2^e with m made odd.
Dyadic(s, m, e) ==
  IF m = << >> \/ s = 0 THEN Zero
  ELSE LET Odd(z) == [k |-> "num", s |-> s, m |-> NatShr(m, z), e |-> e + z]
       IN  Odd(NatTrailingZeros(m))

\* The double of the integer n, |n| < 2^31.
DInt(n) == Dyadic(IF n < 0 THEN -1 ELSE 1, NatOf(IF n < 0 THEN -n ELSE n), 0)

\* Exact -x, |x|.
XNeg(x) == [x EXCEPT !.s = -x.s]

XAbs(x) == [x EXCEPT !.s = IF x.s = 0 THEN 0 ELSE 1]

\* Exact x + y.
XAdd(x, y) ==
  IF x.s = 0 THEN y
  ELSE IF y.s = 0 THEN x
  ELSE LET Aligned(a, b, e0) ==
             LET Ordered(c) ==
                   Dyadic(IF x.s = y.s \/ c >= 0 THEN x.s ELSE y.s,
                          IF x.s = y.s THEN NatAdd(a, b)
                          ELSE IF c >= 0 THEN NatSub(a, b)
                          ELSE NatSub(b, a),
                          e0)
             IN  Ordered(NatCmp(a, b))
           At(e0) == Aligned(NatShl(x.m, x.e - e0), NatShl(y.m, y.e - e0), e0)
       IN  At(IF x.e < y.e THEN x.e ELSE y.e)

XSub(x, y) == XAdd(x, XNeg(y))

\* Exact x * y.
XMul(x, y) == Dyadic(x.s * y.s, NatMul(x.m, y.m), x.e + y.e)

\* The sign of x - y: the order of two values.
XCmp(x, y) == XSub(x, y).s

\* x cut to the double next to it toward zero, in place of the nearest one.
Round_Truncate(x) ==
  LET Dropping(d) == IF d <= 0 THEN x ELSE Dyadic(x.s, NatShr(x.m, d), x.e + d)
  IN  Dropping(NatBitLen(x.m) - SignificandBits)

\* x rounded to the nearest double, ties to the even significand.  The
\* significand is odd: dropping one bit is a tie, dropping more never is.
Round(x) ==
  LET Nearest(d, q) ==
        LET up == IF d = 1 THEN NatBit(q, 0) = 1 ELSE NatBit(x.m, d - 1) = 1
        IN  Dyadic(x.s, IF up THEN NatAdd(q, << 1 >>) ELSE q, x.e + d)
      Dropping(d) == IF d <= 0 THEN x ELSE Nearest(d, NatShr(x.m, d))
  IN  Dropping(NatBitLen(x.m) - SignificandBits)

\* x + y, x - y, x * y as the program computes them.
DAdd(x, y) == Round(XAdd(x, y))

DSub(x, y) == Round(XSub(x, y))

DMul(x, y) == Round(XMul(x, y))

\* x / y: the quotient of the significands is taken to 55 bits or more, a bit
\* is appended for a remainder left, and the whole is rounded.
DDiv(x, y) ==
  IF y.s = 0 THEN (IF x.s = 0 THEN NaN ELSE Inf(x.s))
  ELSE IF x.s = 0 THEN Zero
  ELSE LET Quotient(sh) ==
             LET Sticky(d) ==
                   Round(Dyadic(x.s * y.s,
                                IF d.r = << >> THEN d.q
                                ELSE NatAdd(NatMulSmall(d.q, 2), << 1 >>),
                                x.e - y.e - sh - (IF d.r = << >> THEN 0 ELSE 1)))
             IN  Sticky(NatDivMod(NatShl(x.m, sh), y.m))
           Shifted(need) == Quotient(IF need > 0 THEN need ELSE 0)
       IN  Shifted(SignificandBits + 2 + NatBitLen(y.m) - NatBitLen(x.m))

\* abs(x)
DAbs(x) == XAbs(x)

\* The double nearest to the decimal n / d: what a literal such as 0.1
\* denotes.
Dec(n, d) == DDiv(DInt(n), DInt(d))

\* The literals of the program, as the doubles they denote.
PositionFraction == Dec(1, SizeDivisor)        \* 0.1   (line 393)
Threshold        == Dec(1, ThresholdInv)       \* 0.001 (line 149)
AtrFallback      == Dec(1, AtrFallbackDiv)     \* 0.01  (line 256)
StartingBalance  == DInt(InitialBalance)       \* 10000 (line 368)
Hundred          == DInt(100)                  \* 100   (lines 430, 433)
One              == DInt(1)                    \* 1     (line 153)

(***************************************************************************)
(* Feature pipeline: which columns exist after                             *)
(* calculate_technical_indicators / prepare_features.                      *)
(*                                                                         *)
(* The indicator assignments run in source order inside one try block; the *)
(* first one that raises (a raw column it reads is missing, the library    *)
(* call is unavailable, or the frame has fewer bars than the call can      *)
(* take) ends the function, which returns the frame with the columns       *)
(* assigned so far.                                                        *)
(***************************************************************************)
\* One entry per assignment: the raw columns it reads, the columns it adds,
\* whether it is the tick_volume block (guarded by the column's presence and
\* needing ta.volume.volume_sma), and the fewest bars the call takes:
\* ta's average_true_range writes atr[window - 1] of an array of len(df)
\* entries and raises IndexError on a shorter frame; the rolling and
\* exponential indicators return undefined values instead.
IndicatorSteps ==
  << [needs |-> {"close"}, adds |-> <<"sma_20">>, vol |-> FALSE, minBars |-> 0],
     [needs |-> {"close"}, adds |-> <<"sma_50">>, vol |-> FALSE, minBars |-> 0],
     [needs |-> {"close"}, adds |-> <<"ema_12">>, vol |-> FALSE, minBars |-> 0],
     [needs |-> {"close"}, adds |-> <<"ema_26">>, vol |-> FALSE, minBars |-> 0],
     [needs |-> {"close"},
      adds |-> <<"bb_upper", "bb_middle", "bb_lower", "bb_width">>, vol |-> FALSE, minBars |-> 0],
     [needs |-> {"close"}, adds |-> <<"rsi">>, vol |-> FALSE, minBars |-> 0],
     [needs |-> {"close"},
      adds |-> <<"macd", "macd_signal", "macd_histogram">>, vol |-> FALSE, minBars |-> 0],
     [needs |-> {"high", "low", "close"},
      adds |-> <<"stoch_k", "stoch_d">>, vol |-> FALSE, minBars |-> 0],
     [needs |-> {"high", "low", "close"}, adds |-> <<"atr">>, vol |-> FALSE, minBars |-> AtrWindow],
     [needs |-> {"close", "tick_volume"},
      adds |-> <<"volume_sma", "volume_ratio">>, vol |-> TRUE, minBars |-> 0],
     [needs |-> {"close"}, adds |-> <<"price_change">>, vol |-> FALSE, minBars |-> 0],
     [needs |-> {"high", "low", "close"}, adds |-> <<"high_low_ratio">>, vol |-> FALSE, minBars |-> 0],
     [needs |-> {"close", "open"}, adds |-> <<"open_close_ratio">>, vol |-> FALSE, minBars |-> 0],
     [needs |-> {"close"}, adds |-> <<"price_above_sma20">>, vol |-> FALSE, minBars |-> 0],
     [needs |-> {"close"}, adds |-> <<"price_above_sma50">>, vol |-> FALSE, minBars |-> 0],
     [needs |-> {"close"}, adds |-> <<"sma20_above_sma50">>, vol |-> FALSE, minBars |-> 0] >>

RECURSIVE RunIndicators(_, _, _, _)
\* Columns of the frame after running steps k.. on a frame of `bars` rows
\* with columns cols.
RunIndicators(cols, k, bars, volOk) ==
  IF k > Len(IndicatorSteps) THEN cols
  ELSE LET st == IndicatorSteps[k] IN
       IF st.vol
       THEN IF "tick_volume" \notin cols
            THEN RunIndicators(cols, k + 1, bars, volOk)        \* block skipped
            ELSE IF volOk
                 THEN RunIndicators(cols \cup SeqToSet(st.adds), k + 1, bars, volOk)
                 ELSE cols                                        \* raised
       ELSE IF st.needs \subseteq cols /\ bars >= st.minBars
            THEN RunIndicators(cols \cup SeqToSet(st.adds), k + 1, bars, volOk)
            ELSE cols                                             \* raised

calculate_technical_indicators(raw, bars, volOk) ==
  RunIndicators(raw, 1, bars, volOk)

BaseFeatureColumns ==
  << "sma_20", "sma_50", "ema_12", "ema_26",
     "bb_width", "rsi", "macd", "macd_signal", "macd_histogram",
     "stoch_k", "stoch_d", "atr", "price_change", "high_low_ratio",
     "open_close_ratio", "price_above_sma20", "price_above_sma50",
     "sma20_above_sma50" >>

LagSources == << "close", "rsi", "macd" >>

RECURSIVE LagColumns(_, _)
\* The lag1/lag2 names appended for every lag source present in cols.
LagColumns(srcs, cols) ==
  IF srcs = << >> THEN << >>
  ELSE (IF Head(srcs) \in cols
        THEN << Head(srcs) \o "_lag1", Head(srcs) \o "_lag2" >>
        ELSE << >>) \o LagColumns(Tail(srcs), cols)

\* Columns of the frame prepare_features returns.
PreparedColumns(raw, bars, volOk) ==
  LET c == calculate_technical_indicators(raw, bars, volOk)
  IN  c \cup SeqToSet(LagColumns(LagSources, c))

\* The list prepare_features stores in self.feature_columns.
FeatureColumns(raw, bars, volOk) ==
  LET c == calculate_technical_indicators(raw, bars, volOk)
  IN  FilterIn(BaseFeatureColumns \o LagColumns(LagSources, c),
               PreparedColumns(raw, bars, volOk))

\* Raw column sets of the fetched frame.  get_market_data builds it from the
\* provider's rates array (line 52), whose fields include open, high, low,
\* close and tick_volume; a frame without the volume column is kept as the
\* case in which `if 'tick_volume' in df.columns` (line 96) is false.
RawShapes ==
  { {"open", "high", "low", "close", "tick_volume"},
    {"open", "high", "low", "close"} }

\* The two results above for the frames train_model, generate_signal and
\* backtest_strategy hand to prepare_features: their length checks (lines
\* 173, 236, 356) let through frames of at least 50 bars only, for which no
\* call is short of bars.  Tabulated once per frame shape.
PreparedTable ==
  [raw \in RawShapes, volOk \in BOOLEAN |->
     PreparedColumns(raw, MinSignalBars, volOk)]

FeatureTable ==
  [raw \in RawShapes, volOk \in BOOLEAN |->
     FeatureColumns(raw, MinSignalBars, volOk)]

\* Rows left by prepare_features' dropna for a frame of L bars: the longest
\* rolling window present leaves its first window-1 rows undefined.
FeatureRows(L, cols) ==
  IF "sma_50" \in cols THEN Max(0, L - (LongestWindow - 1)) ELSE L

\* Rows left after create_labels and the caller's dropna: the last
\* `lookahead` rows have no future_return.
LabeledRows(L, cols) == Max(0, FeatureRows(L, cols) - Lookahead)

(***************************************************************************)
(* Inputs: what the market-data provider and the fitted classifier can     *)
(* hand to a call.                                                         *)
(***************************************************************************)
\* Label classes present in the training labels.
ClassSets == { {SELL, HOLD, BUY}, {HOLD, BUY}, {BUY}, {SELL, HOLD} }

\* Lengths of the frame fetched by train_model: too few bars, enough bars
\* but too few clean rows, enough clean rows.
TrainLens == { 99, 153, 154 }

\* Lengths of the frame fetched by generate_signal (count=100).
SignalLens == { 49, 50, SignalBarCount }

\* Closes of the latest row and of the backtest's bars: 1.1 and 1.2.
Prices == { Dec(11, 10), Dec(6, 5) }

\* ATR values of the latest row: 0, 0.001 and 0.0015.
AtrValues == { Zero, Dec(1, 1000), Dec(3, 2000) }

\* The first statement of train_model's numeric part that raises, if any:
\*   "split": train_test_split (a label class with a single member cannot
\*            be stratified);
\*   "scale": scaler.fit_transform (a feature value is infinite, e.g. a bar
\*            whose open is 0 makes open_close_ratio infinite);
\*   "transform": scaler.transform(X_test) at line 199 (the infinite value
\*            is in a row of the test split only, so the fit succeeded);
\*   "fit", "score": model.fit, model.score (not caused by the data, e.g.
\*            a worker of the n_jobs=-1 pool failing).
TrainRaises == { "none", "split", "scale", "transform", "fit", "score" }

NoTrainInput ==
  [data |-> "none", L |-> 0, raw |-> {}, classes |-> {}, raises |-> "none"]

\* data: whether get_market_data returned a frame; L: its length; raw: its
\* columns; classes: the label classes in it; raises: see TrainRaises.
TrainInputs ==
  { NoTrainInput } \cup
  [data : {"df"}, L : TrainLens, raw : RawShapes, classes : ClassSets,
   raises : TrainRaises]

NoSignalInput ==
  [data |-> "none", L |-> 0, raw |-> {}, allNaN |-> FALSE, inf |-> FALSE,
   close |-> Zero, atr |-> Zero]

\* allNaN: every row carries an undefined indicator value and is dropped;
\* inf: the latest row carries an infinite feature value; close, atr: the
\* latest row's close and ATR values.
SignalInputs ==
  { NoSignalInput } \cup
  [data : {"df"}, L : SignalLens, raw : RawShapes, allNaN : BOOLEAN,
   inf : BOOLEAN, close : Prices, atr : AtrValues]

(***************************************************************************)
(* The service's fields.                                                   *)
(***************************************************************************)
\* self.model = None
NoModel ==
  [kind |-> "none", fitted |-> FALSE, run |-> 0, cols |-> << >>, classes |-> {}]

\* RandomForestClassifier(...) before fit
NewForest(run) ==
  [kind |-> "rf", fitted |-> FALSE, run |-> run, cols |-> << >>, classes |-> {}]

\* the forest after fit(X_train_scaled, y_train)
FittedForest(run, cols, classes) ==
  [kind |-> "rf", fitted |-> TRUE, run |-> run, cols |-> cols, classes |-> classes]

\* StandardScaler() as constructed
NewScaler == [fitted |-> FALSE, run |-> 0, cols |-> << >>]

\* StandardScaler.fit: the fitted statistics (mean_, scale_) are dropped
\* first (_reset), the input is validated next and n_features_in_ is set
\* after the validation.  An input that fails validation leaves the scaler
\* without statistics and with the n_features_in_ of the fit before, if
\* there was one (cols: the columns that fit saw).
ScalerAfterFailedFit(sc, run) ==
  IF sc.fitted THEN [fitted |-> FALSE, run |-> run, cols |-> sc.cols] ELSE sc

ScalerAfterFit(run, cols) == [fitted |-> TRUE, run |-> run, cols |-> cols]

\* scaler.transform(X) returns for a row built from the columns `cols`.
ScalerTransforms(sc, cols, inf) ==
  sc.fitted /\ Len(cols) = Len(sc.cols) /\ ~inf

\* model.predict(X) returns for a row built from the columns `cols`.
ModelPredicts(m, cols) ==
  m.kind = "rf" /\ m.fitted /\ Len(cols) = Len(m.cols)

VARIABLES
  taVolumeSma,      \* whether ta.volume.volume_sma can be called (line 97)
  model,            \* self.model
  scaler,           \* self.scaler
  is_trained,       \* self.is_trained
  feature_columns,  \* self.feature_columns
  trainRuns,        \* number of train_model invocations so far
  completed,        \* the train_model invocations that returned True
  last,             \* what the last finished call did and returned
  bt,               \* the running backtest_strategy call
  df,               \* the frame on its way through lines 178-182 / 360-362
  sent,             \* the running analyze_market_sentiment call
  sym               \* the symbols of the last call and of the stored model

vars ==
  << taVolumeSma, model, scaler, is_trained, feature_columns, trainRuns,
     completed, last, bt, df, sent, sym >>

\* sym before any call that names a symbol.
NoSymbols == [call |-> "none", fitted |-> "none"]

Self ==
  [model |-> model, scaler |-> scaler, is_trained |-> is_trained,
   feature_columns |-> feature_columns]

(***************************************************************************)
(* Exceptions.  Every public method's body is one `try:` whose only        *)
(* handler is `except Exception as e:` (lines 222, 296, 347, 448): it logs *)
(* and returns the method's failure value.                                 *)
(***************************************************************************)
\* The classes of the exceptions the numeric pipeline raises; all derive
\* from Exception (NotFittedError from ValueError).
PipelineErrors ==
  { "ValueError", "NotFittedError", "AttributeError", "IndexError",
    "TypeError", "RuntimeError" }

\* Mutant: the handler is `except ValueError`.
except_Exception_ValueErrorOnly(exc) == exc \in { "ValueError", "NotFittedError" }

\* Whether `except Exception` catches an exception of class exc.
except_Exception(exc) == exc \in PipelineErrors

\* Whether a method in which exc was raised ("none": nothing was) ends by
\* propagating it to its caller.
Escapes(exc) == exc # "none" /\ ~except_Exception(exc)

\* The class of the exception behind each value of TrainRaises.
TrainError(raises) ==
  IF raises \in { "split", "scale", "transform" } THEN "ValueError"
  ELSE "RuntimeError"

\* What scaler.transform raises when it does not return.  A scaler that was
\* never handed to fit has no fitted attribute and check_is_fitted raises
\* NotFittedError.  Otherwise the row is validated: an infinite value or a
\* number of columns other than n_features_in_ raises ValueError.  A row
\* that passes on a scaler left without statistics by a failed fit ends at
\* `X -= self.mean_` with AttributeError.
TransformError(sc, cols, inf) ==
  IF ~sc.fitted /\ sc.cols = << >> THEN "NotFittedError"
  ELSE IF inf \/ Len(cols) # Len(sc.cols) THEN "ValueError"
  ELSE "AttributeError"

\* What model.predict raises when it does not return: self.model is None,
\* the forest was never fitted, or the row has another number of columns.
PredictError(m, cols) ==
  IF m.kind = "none" THEN "AttributeError"
  ELSE IF ~m.fitted THEN "NotFittedError"
  ELSE "ValueError"

(***************************************************************************)
(* train_model                                                              *)
(***************************************************************************)
\* Mutant: the stored model is cleared when training starts (self.model =
\* None; self.is_trained = False ahead of the data checks).
train_model_ResetFirst(svc, tin, run, volOk) ==
  LET out(s, ok, line) ==
        [model |-> s.model, scaler |-> s.scaler, is_trained |-> s.is_trained,
         feature_columns |-> s.feature_columns, ok |-> ok, line |-> line,
         raised |-> IF line = 224 THEN TrainError(tin.raises) ELSE "none"]
      cleared == [svc EXCEPT !.model = NoModel, !.is_trained = FALSE]
  IN
  IF tin.data = "none" \/ tin.L < MinTrainBars
  THEN out(cleared, FALSE, 175)
  ELSE
    LET Fit(cols, fc) ==
          LET s1 == [cleared EXCEPT !.feature_columns = fc]
              s2 == [s1 EXCEPT !.scaler = ScalerAfterFailedFit(s1.scaler, run)]
              s3 == [s1 EXCEPT !.scaler = ScalerAfterFit(run, fc)]
              s4 == [s3 EXCEPT !.model = NewForest(run)]
              s5 == [s3 EXCEPT !.model = FittedForest(run, fc, tin.classes)]
              s6 == [s5 EXCEPT !.is_trained = TRUE]
          IN
          IF LabeledRows(tin.L, cols) < MinTrainRows THEN out(s1, FALSE, 186)
          ELSE IF tin.raises = "split" THEN out(s1, FALSE, 224)
          ELSE IF tin.raises = "scale" THEN out(s2, FALSE, 224)
          ELSE IF tin.raises = "transform" THEN out(s3, FALSE, 224)
          ELSE IF tin.raises = "fit" THEN out(s4, FALSE, 224)
          ELSE IF tin.raises = "score" THEN out(s5, FALSE, 224)
          ELSE out(s6, TRUE, 220)
    IN  Fit(PreparedTable[tin.raw, volOk], FeatureTable[tin.raw, volOk])

\* The fields after train_model(svc) on input tin, with `ok` the returned
\* bool, `line` the source line of the return statement taken and `raised`
\* the exception that led to it; run is this invocation's number.
train_model(svc, tin, run, volOk) ==
  LET out(s, ok, line) ==
        [model |-> s.model, scaler |-> s.scaler, is_trained |-> s.is_trained,
         feature_columns |-> s.feature_columns, ok |-> ok, line |-> line,
         raised |-> IF line = 224 THEN TrainError(tin.raises) ELSE "none"]
  IN
  IF tin.data = "none" \/ tin.L < MinTrainBars
  THEN out(svc, FALSE, 175)
  ELSE
    LET Fit(cols, fc) ==
          LET s1 == [svc EXCEPT !.feature_columns = fc]
              s2 == [s1 EXCEPT !.scaler = ScalerAfterFailedFit(s1.scaler, run)]
              s3 == [s1 EXCEPT !.scaler = ScalerAfterFit(run, fc)]
              s4 == [s3 EXCEPT !.model = NewForest(run)]
              s5 == [s3 EXCEPT !.model = FittedForest(run, fc, tin.classes)]
              s6 == [s5 EXCEPT !.is_trained = TRUE]
          IN
          IF LabeledRows(tin.L, cols) < MinTrainRows THEN out(s1, FALSE, 186)
          ELSE IF tin.raises = "split" THEN out(s1, FALSE, 224)
          ELSE IF tin.raises = "scale" THEN out(s2, FALSE, 224)
          ELSE IF tin.raises = "transform" THEN out(s3, FALSE, 224)
          ELSE IF tin.raises = "fit" THEN out(s4, FALSE, 224)
          ELSE IF tin.raises = "score" THEN out(s5, FALSE, 224)
          ELSE out(s6, TRUE, 220)
    IN  Fit(PreparedTable[tin.raw, volOk], FeatureTable[tin.raw, volOk])

\* The {} backtest_strategy returns on thin history or on an exception.
EmptyReport ==
  [empty |-> TRUE, initial_balance |-> 0, final_balance |-> Zero,
   total_return_pct |-> Zero, num_trades |-> 0,
   winning_trades |-> 0, win_rate_pct |-> Zero,
   average_profit_per_trade |-> Zero, trades |-> << >>]

\* The {} analyze_market_sentiment returns on an exception.  symbol_analysis
\* is a dict, kept as a function from its keys.
EmptySentiment ==
  [empty |-> TRUE, bullish_signals |-> 0, bearish_signals |-> 0,
   neutral_signals |-> 0, average_confidence |-> Zero,
   overall_sentiment |-> "none", symbol_analysis |-> << >>]

BlankSignal ==
  [present |-> FALSE, type |-> "none", entry |-> Zero, stop |-> Zero,
   target |-> Zero, rr |-> Zero, confClass |-> HOLD, confidence |-> Zero,
   atr |-> Zero]

\* df.iloc[-1] as read at lines 255-256 by a call that returns a signal:
\* the close, whether the frame has an atr column, and its value if so.
BlankRow == [close |-> Zero, hasAtr |-> FALSE, atr |-> Zero]

\* No levels computed.
BlankLevels ==
  [pred |-> HOLD, price |-> Zero, atr |-> Zero, entry |-> Zero, stop |-> Zero,
   target |-> Zero, rr |-> NaN]

\* line: the source line of the return statement the call ended at;
\* trainLine: the same for the train_model call made inside generate_signal;
\* raised: the exception raised inside the call, escaped: whether the call
\* ended by propagating it.
BlankLast ==
  [op |-> "init", ok |-> FALSE, line |-> 0, raised |-> "none",
   escaped |-> FALSE, wasTrained |-> FALSE,
   trainCalls |-> 0, trainOk |-> FALSE, trainLine |-> 0,
   fetched |-> FALSE, transformed |-> FALSE, predictCalled |-> FALSE,
   inferred |-> FALSE, usedCols |-> << >>, usedScaler |-> NewScaler,
   usedModel |-> NoModel, prediction |-> HOLD, proba |-> << >>,
   signal |-> BlankSignal, row |-> BlankRow,
   report |-> EmptyReport, sentiment |-> EmptySentiment,
   levels |-> BlankLevels]

Idle == [pc |-> "idle"]

TrainModel ==
  /\ bt.pc = "idle" /\ sent.pc = "idle"
  /\ trainRuns < MaxTrainRuns
  /\ \E tin \in TrainInputs :
     \E r \in { train_model(Self, tin, trainRuns + 1, taVolumeSma) } :
       /\ model' = r.model
       /\ scaler' = r.scaler
       /\ is_trained' = r.is_trained
       /\ feature_columns' = r.feature_columns
       /\ trainRuns' = trainRuns + 1
       /\ completed' = IF r.ok THEN completed \cup {trainRuns + 1} ELSE completed
       /\ last' = [BlankLast EXCEPT !.op = "train", !.ok = r.ok, !.line = r.line,
                                    !.raised = r.raised,
                                    !.escaped = Escapes(r.raised),
                                    !.wasTrained = is_trained, !.trainCalls = 1,
                                    !.trainOk = r.ok, !.trainLine = r.line]
  /\ UNCHANGED << taVolumeSma, bt, df, sent, sym >>

(***************************************************************************)
(* generate_signal                                                          *)
(***************************************************************************)
RECURSIVE SortedClasses(_)
\* model.classes_: the label classes in ascending order; predict_proba
\* returns one probability per entry, in this order.
SortedClasses(S) ==
  IF S = {} THEN << >>
  ELSE LET m == CHOOSE x \in S : \A y \in S : x <= y
       IN  << m >> \o SortedClasses(S \ {m})

\* Mutant: the row is built from the stored names in another order (e.g.
\* df[sorted(self.feature_columns)]).
LatestFeatureColumns_Reordered(svc) ==
  IF svc.feature_columns = << >> THEN << >>
  ELSE Tail(svc.feature_columns) \o << Head(svc.feature_columns) >>

\* The columns of the row handed to the scaler and the model:
\* df[self.feature_columns].
LatestFeatureColumns(svc) == svc.feature_columns

\* The probabilities below, as doubles: 0.2, 0.3, 0.5, 0.7 and 1.0.
Probability == [p \in {20, 30, 50, 70, 100} |-> Dec(p, 100)]

\* model.predict_proba(X)[0] for a row the forest predicts as pred: one
\* probability per class of model.classes_, the largest one at the
\* predicted class (predict is the argmax of predict_proba).  The other
\* classes get 0.3 and 0.2 (0.3 against 0.7 if there is only one other),
\* in classes_ order.
PredictProba(classes, pred) ==
  LET cls    == SortedClasses(classes)
      others == FilterIn(cls, classes \ {pred})
      rank(c) == CHOOSE k \in 1..Len(others) : others[k] = c
  IN  [k \in 1..Len(cls) |->
         Probability[
           IF cls[k] = pred
           THEN (IF Len(cls) = 1 THEN 100 ELSE IF Len(cls) = 2 THEN 70 ELSE 50)
           ELSE IF Len(cls) = 2 THEN 30
           ELSE IF rank(cls[k]) = 1 THEN 30 ELSE 20]]

\* Mutant: a BUY always reads prediction_proba[1].
ConfidenceIndex_Second(pred, nproba) ==
  IF pred = BUY THEN 1 ELSE 0

\* 0-based index into prediction_proba read for the confidence.
ConfidenceIndex(pred, nproba) ==
  IF pred = BUY THEN (IF nproba > 2 THEN 2 ELSE 1) ELSE 0

\* Lines 259-275 with the multiples of the ATR as parameters: entry, stop
\* and target of a BUY or SELL and risk_reward_ratio, each operation a
\* float64 operation.  The ratio's divisor may be 0: numpy.float64 division
\* then returns inf or nan.
LevelsAt(pred, price, atr, stopMult, targetMult) ==
  LET Rated(entry, stop, target) ==
        [entry |-> entry, stop |-> stop, target |-> target,
         rr |-> DDiv(DAbs(DSub(target, entry)), DAbs(DSub(entry, stop)))]
      Placed(entry, stopDistance, targetDistance) ==
        Rated(entry,
              IF pred = BUY THEN DSub(entry, stopDistance)
              ELSE DAdd(entry, stopDistance),
              IF pred = BUY THEN DAdd(entry, targetDistance)
              ELSE DSub(entry, targetDistance))
  IN  Placed(price, DMul(DInt(stopMult), atr), DMul(DInt(targetMult), atr))

\* stop_loss = entry -/+ 2 * atr, take_profit = entry +/- 3 * atr.
Levels(pred, price, atr) == LevelsAt(pred, price, atr, StopAtrMult, TargetAtrMult)

\* Mutant: the stop is 3 ATR and the target 2 ATR away from the entry.
BuildSignal_SwappedMultiples(pred, price, atr, confClass, confidence) ==
  LET Signal(lv) ==
        [present |-> TRUE, type |-> IF pred = BUY THEN "buy" ELSE "sell",
         entry |-> lv.entry, stop |-> lv.stop, target |-> lv.target,
         rr |-> lv.rr,
         confClass |-> confClass, confidence |-> confidence, atr |-> atr]
  IN  Signal(LevelsAt(pred, price, atr, TargetAtrMult, StopAtrMult))

\* The signal built from a non-HOLD prediction, the latest close and ATR;
\* confidence is the entry of prediction_proba read, confClass the class
\* that entry belongs to.
BuildSignal(pred, price, atr, confClass, confidence) ==
  LET Signal(lv) ==
        [present |-> TRUE, type |-> IF pred = BUY THEN "buy" ELSE "sell",
         entry |-> lv.entry, stop |-> lv.stop, target |-> lv.target,
         rr |-> lv.rr,
         confClass |-> confClass, confidence |-> confidence, atr |-> atr]
  IN  Signal(Levels(pred, price, atr))

\* Mutant: the `if not self.is_trained` test is dropped; every call trains.
TrainIfNeeded_Always(svc, tin, run, volOk) == train_model(svc, tin, run, volOk)

\* What `if not self.is_trained: if not await self.train_model(...)` leaves:
\* the fields and whether the call goes on (ok).
TrainIfNeeded(svc, tin, run, volOk) ==
  IF svc.is_trained
  THEN [model |-> svc.model, scaler |-> svc.scaler, is_trained |-> svc.is_trained,
        feature_columns |-> svc.feature_columns, ok |-> TRUE, line |-> 0,
        raised |-> "none"]
  ELSE train_model(svc, tin, run, volOk)

\* Whether generate_signal gets a prediction out of the classifier: training
\* (if any) succeeded, a recent frame with a complete row was fetched, and
\* scaler.transform and model.predict both returned.
Infers(t, gin, volOk) ==
  LET Row(fc) ==
        /\ ScalerTransforms(t.scaler, fc, gin.inf)
        /\ ModelPredicts(t.model, fc)
  IN  /\ t.ok
      /\ gin.data = "df" /\ gin.L >= MinSignalBars
      /\ ~gin.allNaN /\ FeatureRows(gin.L, PreparedTable[gin.raw, volOk]) > 0
      /\ Row(FeatureTable[gin.raw, volOk])

\* The four fields of a record that may carry more.
Fields(s) ==
  [model |-> s.model, scaler |-> s.scaler, is_trained |-> s.is_trained,
   feature_columns |-> s.feature_columns]

\* The record of a generate_signal call up to its training step; t.line is
\* 0 when train_model was not called.
GenerateRecord(svc, t) ==
  [BlankLast EXCEPT !.op = "generate", !.line = 232,
                    !.wasTrained = svc.is_trained,
                    !.trainCalls = IF t.line = 0 THEN 0 ELSE 1,
                    !.trainOk = t.ok, !.trainLine = t.line]

\* generate_signal from `# Get recent data` on: t are the fields after the
\* training step, gin the recent frame and pred the class the classifier
\* predicts.  The result holds the fields afterwards and the record of what
\* the call did.
SignalFromRecentData(svc, t, gin, pred, volOk) ==
  LET ret(s, l, line, exc) ==
        [svc |-> Fields(s),
         last |-> [l EXCEPT !.line = line, !.raised = exc,
                            !.escaped = Escapes(exc)]]
      \* lines 255-294: the latest close and ATR, the levels, the confidence
      Signal(s1, l4, cols, proba, idx, price) ==
        IF pred = HOLD THEN ret(s1, l4, 272, "none")
        ELSE IF idx >= Len(proba) THEN ret(s1, l4, 298, "IndexError")
        ELSE ret(s1, [l4 EXCEPT
               !.ok = TRUE,
               !.row = [close |-> gin.close, hasAtr |-> "atr" \in cols,
                        atr |-> IF "atr" \in cols THEN gin.atr ELSE Zero],
               !.signal = BuildSignal(pred, price,
                                      IF "atr" \in cols THEN gin.atr
                                      ELSE DMul(price, AtrFallback),
                                      SortedClasses(t.model.classes)[idx + 1],
                                      proba[idx + 1])], 294, "none")
      \* lines 248-252: transform, predict, predict_proba
      Predict(s1, l2, cols, used, proba) ==
        IF ~ScalerTransforms(t.scaler, used, gin.inf)
        THEN ret(s1, l2, 298, TransformError(t.scaler, used, gin.inf))
        ELSE IF ~ModelPredicts(t.model, used)
        THEN ret(s1, [l2 EXCEPT !.predictCalled = TRUE], 298,
                 PredictError(t.model, used))
        ELSE Signal(s1, [l2 EXCEPT !.predictCalled = TRUE, !.inferred = TRUE,
                                   !.prediction = pred, !.proba = proba],
                    cols, proba, ConfidenceIndex(pred, Len(proba)), gin.close)
      \* lines 243-247: the latest row of the stored feature columns
      LatestRow(s1, l0, cols, used) ==
        IF (IF gin.allNaN THEN 0 ELSE FeatureRows(gin.L, cols)) = 0
        THEN ret(s1, l0, 244, "none")
        ELSE Predict(s1, [l0 EXCEPT !.transformed = TRUE,
                                    !.usedCols = used, !.usedScaler = t.scaler,
                                    !.usedModel = t.model],
                     cols, used, PredictProba(t.model.classes, pred))
      \* lines 240-241: prepare_features
      Prepare(s1, l0, cols) == LatestRow(s1, l0, cols, LatestFeatureColumns(s1))
      \* lines 235-237: the recent frame
      Fetch(l0) ==
        IF gin.data = "none" \/ gin.L < MinSignalBars THEN ret(t, l0, 237, "none")
        ELSE Prepare([t EXCEPT !.feature_columns = FeatureTable[gin.raw, volOk]],
                     l0, PreparedTable[gin.raw, volOk])
  IN  Fetch([GenerateRecord(svc, t) EXCEPT !.fetched = TRUE])

\* Mutant: the result of train_model is ignored and the call goes on.
generate_signal_NoAbort(svc, t, gin, pred, volOk) ==
  SignalFromRecentData(svc, t, gin, pred, volOk)

\* generate_signal: svc are the fields at the call, t the outcome of
\* TrainIfNeeded; a failed training ends the call with None.
generate_signal(svc, t, gin, pred, volOk) ==
  IF ~t.ok
  THEN [svc |-> Fields(t), last |-> GenerateRecord(svc, t)]
  ELSE SignalFromRecentData(svc, t, gin, pred, volOk)

\* What generate_signal can return after the training step t, over the
\* frames of `inputs` it may fetch and, where it infers, over the classes the
\* fitted classifier can predict.
SignalResults(t, inputs) ==
  UNION { { generate_signal(Self, t, gin, pred, taVolumeSma) :
              pred \in (IF Infers(t, gin, taVolumeSma)
                        THEN t.model.classes ELSE {HOLD}) } :
          gin \in (IF t.ok THEN inputs ELSE {NoSignalInput}) }

GenerateSignal ==
  /\ bt.pc = "idle" /\ sent.pc = "idle"
  /\ is_trained \/ trainRuns < MaxTrainRuns
  /\ \E tin \in (IF is_trained THEN {NoTrainInput} ELSE TrainInputs) :
     \E t \in { TrainIfNeeded(Self, tin, trainRuns + 1, taVolumeSma) } :
     \E r \in SignalResults(t, SignalInputs) :
       /\ model' = r.svc.model
       /\ scaler' = r.svc.scaler
       /\ is_trained' = r.svc.is_trained
       /\ feature_columns' = r.svc.feature_columns
       /\ trainRuns' = trainRuns + r.last.trainCalls
       /\ completed' = IF r.last.trainCalls = 1 /\ r.last.trainOk
                       THEN completed \cup {trainRuns + 1} ELSE completed
       /\ last' = r.last
  /\ UNCHANGED << taVolumeSma, bt, df, sent, sym >>

(***************************************************************************)
(* backtest_strategy                                                        *)
(***************************************************************************)
\* Lengths of the frame fetched by backtest_strategy: too few bars, too few
\* clean rows, and 0..MaxLoopBars rows past the warm-up index.
BacktestLens ==
  { 99, 103 } \cup { 104 + k : k \in 0..MaxLoopBars }

NoBacktestInput == [data |-> "none", L |-> 0, raw |-> {}]

BacktestInputs ==
  { NoBacktestInput } \cup [data : {"df"}, L : BacktestLens, raw : RawShapes]

\* position = None
NoPosition ==
  [open |-> FALSE, type |-> "none", entry_price |-> Zero, entry_time |-> 0,
   size |-> Zero]

\* Mutant: the size is taken from the initial balance.
PositionSize_InitialBalance(balance, price) ==
  DDiv(DMul(StartingBalance, PositionFraction), price)

\* balance * 0.1 / current_price: the product is rounded, then the quotient.
PositionSize(balance, price) == DDiv(DMul(balance, PositionFraction), price)

\* The position opened at bar i on a non-HOLD prediction.
OpenPosition(pred, price, i, balance) ==
  [open |-> TRUE, type |-> IF pred = BUY THEN "buy" ELSE "sell",
   entry_price |-> price, entry_time |-> i,
   size |-> PositionSize(balance, price)]

\* Mutant: any non-HOLD prediction exits (the direction is not compared).
ShouldExit_OnAnySignal(pos, pred) == pos.open /\ pred # HOLD

\* Mutant: any prediction other than the position's own direction exits.
ShouldExit_OnAnyChange(pos, pred) ==
  \/ pos.type = "buy" /\ pred # BUY
  \/ pos.type = "sell" /\ pred # SELL

\* should_exit: the prediction is the opposite of the open position.
ShouldExit(pos, pred) ==
  \/ pos.type = "buy" /\ pred = SELL
  \/ pos.type = "sell" /\ pred = BUY

\* Mutant: the long formula is used for a short as well.
Profit_LongFormula(pos, price) ==
  DMul(DSub(price, pos.entry_price), pos.size)

\* Profit of closing pos at price (lines 411, 413): the difference of the
\* prices is rounded, then its product with the size.
Profit(pos, price) ==
  IF pos.type = "buy"
  THEN DMul(DSub(price, pos.entry_price), pos.size)
  ELSE DMul(DSub(pos.entry_price, price), pos.size)

\* The completed trade appended on a close at bar i.
ClosedTrade(pos, price, i) ==
  [entry_time |-> pos.entry_time, exit_time |-> i, type |-> pos.type,
   entry_price |-> pos.entry_price, exit_price |-> price,
   profit |-> Profit(pos, price), exit_reason |-> "Signal reversal"]

\* Mutant: the `position is None` test is dropped.
OpensAt_Pyramiding(pos, pred) == pred # HOLD

\* Whether bar i opens a position: flat and a non-HOLD prediction.
OpensAt(pos, pred) == ~pos.open /\ pred # HOLD

\* Mutant: a reversal closes the position and opens the opposite one at the
\* same bar.
BarStep_ReverseAndReopen(b, pred, price) ==
  LET b1 == [b EXCEPT !.pred = pred, !.price = price,
                      !.seen = b.seen \cup {pred}, !.i = b.i + 1]
      balance == DAdd(b.balance, Profit(b.position, price))
  IN
  IF OpensAt(b.position, pred)
  THEN [b1 EXCEPT !.position = OpenPosition(pred, price, b.i, b.balance),
                  !.opened = b.opened + 1]
  ELSE IF b.position.open /\ ShouldExit(b.position, pred)
  THEN [b1 EXCEPT !.balance = balance,
                  !.trades = Append(b.trades, ClosedTrade(b.position, price, b.i)),
                  !.position = OpenPosition(pred, price, b.i, balance),
                  !.opened = b.opened + 1]
  ELSE b1

\* Mutant: a prediction in the open position's own direction re-enters at the
\* bar's close.
BarStep_AverageIn(b, pred, price) ==
  LET b1 == [b EXCEPT !.pred = pred, !.price = price,
                      !.seen = b.seen \cup {pred}, !.i = b.i + 1]
  IN
  IF OpensAt(b.position, pred)
  THEN [b1 EXCEPT !.position = OpenPosition(pred, price, b.i, b.balance),
                  !.opened = b.opened + 1]
  ELSE IF b.position.open /\ ShouldExit(b.position, pred)
  THEN [b1 EXCEPT !.balance = DAdd(b.balance, Profit(b.position, price)),
                  !.trades = Append(b.trades, ClosedTrade(b.position, price, b.i)),
                  !.position = NoPosition]
  ELSE IF b.position.open /\ pred # HOLD
  THEN [b1 EXCEPT !.position = OpenPosition(pred, price, b.i, b.balance)]
  ELSE b1

\* Mutant: a bar that leaves the position open books its profit so far.
BarStep_MarkToMarket(b, pred, price) ==
  LET b1 == [b EXCEPT !.pred = pred, !.price = price,
                      !.seen = b.seen \cup {pred}, !.i = b.i + 1]
  IN
  IF OpensAt(b.position, pred)
  THEN [b1 EXCEPT !.position = OpenPosition(pred, price, b.i, b.balance),
                  !.opened = b.opened + 1]
  ELSE IF b.position.open /\ ShouldExit(b.position, pred)
  THEN [b1 EXCEPT !.balance = DAdd(b.balance, Profit(b.position, price)),
                  !.trades = Append(b.trades, ClosedTrade(b.position, price, b.i)),
                  !.position = NoPosition]
  ELSE IF b.position.open
  THEN [b1 EXCEPT !.balance = DAdd(b.balance, Profit(b.position, price))]
  ELSE b1

\* One pass of the loop body for a bar with prediction pred and close price.
\* pred, price and seen record the bar's prediction and close and the set of
\* predictions made so far in the run.  `balance += profit` is a float64
\* addition.
BarStep(b, pred, price) ==
  LET b1 == [b EXCEPT !.pred = pred, !.price = price,
                      !.seen = b.seen \cup {pred}, !.i = b.i + 1]
  IN
  IF OpensAt(b.position, pred)
  THEN [b1 EXCEPT !.position = OpenPosition(pred, price, b.i, b.balance),
                  !.opened = b.opened + 1]
  ELSE IF b.position.open /\ ShouldExit(b.position, pred)
  THEN [b1 EXCEPT !.balance = DAdd(b.balance, Profit(b.position, price)),
                  !.trades = Append(b.trades, ClosedTrade(b.position, price, b.i)),
                  !.position = NoPosition]
  ELSE b1

RECURSIVE SumProfit(_)
\* sum([t['profit'] for t in trades]): the profits are added to 0 one by one,
\* first trade first, each sum rounded.
SumProfit(ts) ==
  IF ts = << >> THEN Zero
  ELSE DAdd(SumProfit(SubSeq(ts, 1, Len(ts) - 1)), ts[Len(ts)].profit)

RECURSIVE CountWins(_)
\* len([t for t in trades if t['profit'] > 0])
CountWins(ts) ==
  IF ts = << >> THEN 0
  ELSE (IF Head(ts).profit.s > 0 THEN 1 ELSE 0) + CountWins(Tail(ts))

\* Mutant: trades[:10], the first trades instead of the last.
LastTrades_First(ts) ==
  IF Len(ts) <= DetailLimit THEN ts ELSE SubSeq(ts, 1, DetailLimit)

\* trades[-10:]
LastTrades(ts) ==
  IF Len(ts) <= DetailLimit THEN ts
  ELSE SubSeq(ts, Len(ts) - DetailLimit + 1, Len(ts))

\* Mutant: the win rate is left as a fraction of 1 (no * 100).
Report_WinRateFraction(balance, trades) ==
  LET num  == Len(trades)
      wins == CountWins(trades)
  IN  [empty |-> FALSE,
       initial_balance |-> InitialBalance,
       final_balance |-> balance,
       total_return_pct |->
         DMul(DDiv(DSub(balance, StartingBalance), StartingBalance), Hundred),
       num_trades |-> num,
       winning_trades |-> wins,
       win_rate_pct |-> IF num > 0 THEN DDiv(DInt(wins), DInt(num)) ELSE Zero,
       average_profit_per_trade |->
         IF num > 0 THEN DDiv(SumProfit(trades), DInt(num)) ELSE Zero,
       trades |-> LastTrades(trades)]

\* The report computed after the loop (lines 430-446).  Each expression is
\* evaluated left to right in doubles: the quotient is rounded, then its
\* product with 100.
Report(balance, trades) ==
  LET num  == Len(trades)
      wins == CountWins(trades)
  IN  [empty |-> FALSE,
       initial_balance |-> InitialBalance,
       final_balance |-> balance,
       total_return_pct |->
         DMul(DDiv(DSub(balance, StartingBalance), StartingBalance), Hundred),
       num_trades |-> num,
       winning_trades |-> wins,
       win_rate_pct |->
         IF num > 0 THEN DMul(DDiv(DInt(wins), DInt(num)), Hundred) ELSE Zero,
       average_profit_per_trade |->
         IF num > 0 THEN DDiv(SumProfit(trades), DInt(num)) ELSE Zero,
       trades |-> LastTrades(trades)]

\* POST /backtest (endpoints/signals.py): the response to the service's
\* result; `if not backtest_results` is true of the empty dict.
backtest_endpoint(results) ==
  IF results.empty
  THEN [status |-> 400, detail |-> "Failed to run backtest"]
  ELSE [status |-> 200, detail |-> "BacktestResponse"]

\* The locals at `for i in range(50, len(df))`, n being len(df).
LoopStart(n) ==
  [pc |-> "loop", i |-> WarmupIndex, n |-> n,
   balance |-> StartingBalance,
   position |-> NoPosition, trades |-> << >>,
   opened |-> 0, pred |-> HOLD, price |-> Zero, seen |-> {}]

\* backtest_strategy up to the loop: fetch, prepare_features, create_labels,
\* dropna and the two length checks.
BacktestStart ==
  /\ bt.pc = "idle" /\ sent.pc = "idle"
  /\ \E bin \in BacktestInputs :
       IF bin.data = "none" \/ bin.L < MinBacktestBars
       THEN /\ bt' = Idle
            /\ last' = [BlankLast EXCEPT !.op = "backtest", !.line = 357,
                                         !.wasTrained = is_trained]
            /\ UNCHANGED feature_columns
       ELSE LET cols == PreparedTable[bin.raw, taVolumeSma]
                n    == LabeledRows(bin.L, cols)
            IN
            /\ feature_columns' = FeatureTable[bin.raw, taVolumeSma]
            /\ IF n < MinBacktestRows
               THEN /\ bt' = Idle
                    /\ last' = [BlankLast EXCEPT !.op = "backtest", !.line = 365,
                                                 !.wasTrained = is_trained]
               ELSE /\ bt' = LoopStart(n)
                    /\ last' = [BlankLast EXCEPT !.op = "backtesting",
                                                 !.wasTrained = is_trained]
  /\ UNCHANGED << taVolumeSma, model, scaler, is_trained, trainRuns, completed, df, sent, sym >>

\* What the bar's scaler.transform / model.predict raises when one of them
\* does not return; inf: the bar's feature row holds an infinite value.
BarError(svc, inf) ==
  IF ~ScalerTransforms(svc.scaler, LatestFeatureColumns(svc), inf)
  THEN TransformError(svc.scaler, LatestFeatureColumns(svc), inf)
  ELSE PredictError(svc.model, LatestFeatureColumns(svc))

\* Mutant: the `if self.is_trained` test is dropped; every bar goes to the
\* scaler and the model.
SkipsBar_Never(svc) == FALSE

\* `if self.is_trained: ... else: continue`: whether the bar is skipped.
SkipsBar(svc) == ~svc.is_trained

\* One iteration of `for i in range(50, len(df))`.  inf: the bar's feature
\* row holds an infinite value (dropna keeps it), e.g. the stochastic
\* oscillator over a window whose high equals its low below the close.
\* model.predict is called once scaler.transform has returned, whether it
\* returns or raises.  The record of the call keeps what its earlier bars
\* did: a bar that raises leaves predictCalled and inferred as they were if
\* an earlier bar of the call got a prediction.
BacktestBar ==
  /\ bt.pc = "loop"
  /\ bt.i < bt.n
  /\ \E inf \in BOOLEAN :
     IF SkipsBar(Self)
     THEN /\ bt' = [bt EXCEPT !.i = bt.i + 1]                       \* continue
          /\ UNCHANGED last
     ELSE IF ~(/\ ScalerTransforms(scaler, LatestFeatureColumns(Self), inf)
               /\ ModelPredicts(model, LatestFeatureColumns(Self)))
     THEN /\ bt' = Idle                                   \* except: return {}
          /\ \E exc \in { BarError(Self, inf) } :
             last' = [last EXCEPT !.op = "backtest", !.line = 450,
                                  !.raised = exc, !.escaped = Escapes(exc),
                                  !.wasTrained = is_trained,
                                  !.transformed = TRUE,
                                  !.predictCalled =
                                     \/ last.predictCalled
                                     \/ ScalerTransforms(
                                          scaler, LatestFeatureColumns(Self), inf),
                                  !.usedCols = LatestFeatureColumns(Self),
                                  !.usedScaler = scaler, !.usedModel = model]
     ELSE /\ \E pred \in model.classes, price \in Prices :
               bt' = BarStep(bt, pred, price)
          /\ last' = [last EXCEPT !.transformed = TRUE, !.predictCalled = TRUE,
                                  !.inferred = TRUE,
                                  !.usedCols = LatestFeatureColumns(Self),
                                  !.usedScaler = scaler, !.usedModel = model]
  /\ UNCHANGED << taVolumeSma, model, scaler, is_trained, feature_columns,
                  trainRuns, completed, df, sent, sym >>

\* The loop is over: compute and return the report.
BacktestReport ==
  /\ bt.pc = "loop"
  /\ bt.i >= bt.n
  /\ bt' = Idle
  /\ last' = [last EXCEPT !.op = "backtest", !.ok = TRUE, !.line = 446,
                          !.report = Report(bt.balance, bt.trades)]
  /\ UNCHANGED << taVolumeSma, model, scaler, is_trained, feature_columns,
                  trainRuns, completed, df, sent, sym >>

(***************************************************************************)
(* analyze_market_sentiment                                                 *)
(***************************************************************************)
\* The symbol lists handed to analyze_market_sentiment.
SymbolLists == { << >>, << "EURUSD" >>, << "EURUSD", "GBPUSD" >> }

\* Lists that name a symbol more than once.
RepeatingSymbolLists == { << "EURUSD", "EURUSD" >>, << "GBPUSD", "EURUSD", "GBPUSD" >> }

\* The list GET /market-sentiment passes when it is given none
\* (endpoints/signals.py, line 284).
DefaultSymbols == << "EURUSD", "GBPUSD", "USDJPY", "AUDUSD", "USDCAD" >>

\* given: whether `symbols` is a list at all (None is not iterable).
SentimentInputs ==
  { [given |-> FALSE, symbols |-> << >>] } \cup
  [given : {TRUE}, symbols : SymbolLists]

\* The same with the repeating lists and the endpoint's list as well.
AnySentimentInputs ==
  SentimentInputs \cup
  [given : {TRUE}, symbols : RepeatingSymbolLists \cup { DefaultSymbols }]

\* The recent frames of the generate_signal calls made for the symbols:
\* every length, shape and failure of SignalInputs, at one close and one ATR
\* (no count and no average reads a signal's levels).
SentimentSignalInputs ==
  { NoSignalInput } \cup
  [data : {"df"}, L : SignalLens, raw : RawShapes, allNaN : BOOLEAN,
   inf : BOOLEAN, close : { Dec(11, 10) }, atr : { Dec(1, 1000) }]

\* d[key] = value on a dict d: the key is added, or its value replaced.
DictSet(d, key, value) ==
  [k \in (DOMAIN d) \cup {key} |-> IF k = key THEN value ELSE d[k]]

\* The two bounds of bullish_ratio (lines 336, 338).
BullishAbove == Dec(3, 5)   \* 0.6
BearishBelow == Dec(2, 5)   \* 0.4

\* `overall_sentiment` from the two counts (lines 333-343): the ratio is a
\* float64 quotient, compared with the doubles 0.6 and 0.4.
OverallSentiment(bullish, bearish) ==
  LET total_signals == bullish + bearish
      bullish_ratio == DDiv(DInt(bullish), DInt(total_signals))
  IN  IF total_signals = 0 THEN "neutral"
      ELSE IF XCmp(bullish_ratio, BullishAbove) > 0 THEN "bullish"
      ELSE IF XCmp(bullish_ratio, BearishBelow) < 0 THEN "bearish"
      ELSE "neutral"

\* Mutant: `if signal:` is dropped; a call that returned None is counted as
\* a neutral signal of confidence 0.
CountSignal_CountsNone(s, signal) ==
  LET call == [symbol |-> Head(s.todo), present |-> signal.present,
               type |-> signal.type, confidence |-> signal.confidence,
               signal |-> signal]
  IN
  IF ~signal.present
  THEN [s EXCEPT !.todo = Tail(s.todo), !.calls = Append(s.calls, call),
                 !.neutral_signals = s.neutral_signals + 1,
                 !.signal_count = s.signal_count + 1]
  ELSE [s EXCEPT
         !.todo = Tail(s.todo),
         !.calls = Append(s.calls, call),
         !.symbol_analysis = DictSet(s.symbol_analysis, Head(s.todo), signal),
         !.bullish_signals = s.bullish_signals
                             + (IF signal.type = "buy" THEN 1 ELSE 0),
         !.bearish_signals = s.bearish_signals
                             + (IF signal.type = "sell" THEN 1 ELSE 0),
         !.neutral_signals = s.neutral_signals
                             + (IF signal.type \in {"buy", "sell"} THEN 0 ELSE 1),
         !.total_confidence = DAdd(s.total_confidence, signal.confidence),
         !.signal_count = s.signal_count + 1]

\* The locals after one pass of `for symbol in symbols`, signal being what
\* generate_signal returned for the symbol at the head of todo.  calls
\* records, in order, each symbol passed and what came back.  The signal is
\* stored under its symbol, in place of one stored there by an earlier pass,
\* and `total_confidence += ...` is a float64 addition.
CountSignal(s, signal) ==
  LET call == [symbol |-> Head(s.todo), present |-> signal.present,
               type |-> signal.type, confidence |-> signal.confidence,
               signal |-> signal]
  IN
  IF ~signal.present
  THEN [s EXCEPT !.todo = Tail(s.todo), !.calls = Append(s.calls, call)]
  ELSE [s EXCEPT
         !.todo = Tail(s.todo),
         !.calls = Append(s.calls, call),
         !.symbol_analysis = DictSet(s.symbol_analysis, Head(s.todo), signal),
         !.bullish_signals = s.bullish_signals
                             + (IF signal.type = "buy" THEN 1 ELSE 0),
         !.bearish_signals = s.bearish_signals
                             + (IF signal.type = "sell" THEN 1 ELSE 0),
         !.neutral_signals = s.neutral_signals
                             + (IF signal.type \in {"buy", "sell"} THEN 0 ELSE 1),
         !.total_confidence = DAdd(s.total_confidence, signal.confidence),
         !.signal_count = s.signal_count + 1]

\* sentiment_data as returned at line 345; line 330 is a float64 division.
SentimentData(s) ==
  [empty |-> FALSE,
   bullish_signals |-> s.bullish_signals,
   bearish_signals |-> s.bearish_signals,
   neutral_signals |-> s.neutral_signals,
   average_confidence |->
     IF s.signal_count > 0
     THEN DDiv(s.total_confidence, DInt(s.signal_count))
     ELSE Zero,
   overall_sentiment |-> OverallSentiment(s.bullish_signals, s.bearish_signals),
   symbol_analysis |-> s.symbol_analysis]

\* analyze_market_sentiment up to its loop.  Iterating over None raises
\* TypeError, which ends the call in the handler at line 347.  A call is
\* started only if the training runs it may need stay within MaxTrainRuns.
AnalyzeStartOver(inputs) ==
  /\ bt.pc = "idle" /\ sent.pc = "idle"
  /\ \E sin \in inputs :
       IF ~sin.given
       THEN /\ sent' = Idle
            /\ last' = [BlankLast EXCEPT !.op = "sentiment", !.line = 349,
                                         !.raised = "TypeError",
                                         !.escaped = Escapes("TypeError"),
                                         !.wasTrained = is_trained]
       ELSE /\ is_trained \/ trainRuns + Len(sin.symbols) <= MaxTrainRuns
            /\ sent' = [pc |-> "loop", todo |-> sin.symbols, calls |-> << >>,
                        bullish_signals |-> 0, bearish_signals |-> 0,
                        neutral_signals |-> 0, total_confidence |-> Zero,
                        signal_count |-> 0, symbol_analysis |-> << >>]
            /\ last' = [BlankLast EXCEPT !.op = "analysing",
                                         !.wasTrained = is_trained]
  /\ UNCHANGED << taVolumeSma, model, scaler, is_trained, feature_columns,
                  trainRuns, completed, bt, df, sym >>

AnalyzeStart == AnalyzeStartOver(SentimentInputs)

AnalyzeStartAny == AnalyzeStartOver(AnySentimentInputs)

\* One pass of `for symbol in symbols`: generate_signal for the symbol and
\* the bookkeeping of lines 316-327.
AnalyzeSymbol ==
  /\ sent.pc = "loop"
  /\ sent.todo # << >>
  /\ \E tin \in (IF is_trained THEN {NoTrainInput} ELSE TrainInputs) :
     \E t \in { TrainIfNeeded(Self, tin, trainRuns + 1, taVolumeSma) } :
     \E r \in SignalResults(t, SentimentSignalInputs) :
       /\ model' = r.svc.model
       /\ scaler' = r.svc.scaler
       /\ is_trained' = r.svc.is_trained
       /\ feature_columns' = r.svc.feature_columns
       /\ trainRuns' = trainRuns + r.last.trainCalls
       /\ completed' = IF r.last.trainCalls = 1 /\ r.last.trainOk
                       THEN completed \cup {trainRuns + 1} ELSE completed
       /\ sent' = CountSignal(sent, r.last.signal)
       /\ last' = [last EXCEPT !.escaped = last.escaped \/ r.last.escaped]
  /\ UNCHANGED << taVolumeSma, bt, df, sym >>

\* The loop is over: the averages, the overall sentiment and the return.
AnalyzeFinish ==
  /\ sent.pc = "loop"
  /\ sent.todo = << >>
  /\ sent' = Idle
  /\ last' = [last EXCEPT !.op = "sentiment", !.ok = TRUE, !.line = 345,
                          !.sentiment = SentimentData(sent)]
  /\ UNCHANGED << taVolumeSma, model, scaler, is_trained, feature_columns,
                  trainRuns, completed, bt, df, sym >>

(***************************************************************************)
(* The frame pipeline of train_model (lines 178-182) and backtest_strategy *)
(* (lines 360-362): prepare_features, create_labels, dropna.               *)
(*                                                                         *)
(* A frame is a pandas DataFrame, kept column by column.  Of a fetched     *)
(* frame of `bars` rows the closes of the last Len(src) rows are tracked   *)
(* (src); the `lead` rows before them fall inside the sma_50 warm-up and   *)
(* are dropped by prepare_features whatever they hold.                     *)
(***************************************************************************)
ClosePrices == { 999, 1000, 1001 }

\* Untracked leading rows: none, one short of the warm-up, the warm-up.
LeadBars == { 0, LongestWindow - 2, LongestWindow - 1 }

NoFrame ==
  [stage |-> "none", bars |-> 0, lead |-> 0, src |-> << >>, raw |-> {},
   allNaN |-> FALSE, cols |-> {}, close |-> << >>, future_return |-> << >>,
   label |-> << >>]

\* The frames get_market_data may return: at least one bar (for an empty
\* rates array it returns None, line 49).  allNaN: every row carries an
\* undefined indicator value (e.g. the stochastic oscillator of a window
\* whose high equals its low is 0/0).
FetchedFrames ==
  { f \in { [NoFrame EXCEPT !.stage = "fetched", !.bars = lead + Len(src),
                            !.lead = lead, !.src = src, !.raw = raw,
                            !.allNaN = a, !.cols = raw] :
               lead \in LeadBars,
               src \in UNION { [1..n -> ClosePrices] : n \in 0..MaxTailBars },
               raw \in RawShapes, a \in BOOLEAN } :
      f.bars >= 1 }

\* prepare_features(df): the indicator columns are added and dropna keeps
\* the rows without an undefined value, in their order.
prepare_features(f, volOk) ==
  LET cols == PreparedColumns(f.raw, f.bars, volOk)
      kept == IF f.allNaN THEN 0 ELSE FeatureRows(f.bars, cols)
      n    == Len(f.src)
  IN  [f EXCEPT !.stage = "prepared", !.cols = cols,
                !.close = SubSeq(f.src, n - kept + 1, n)]

\* df['close'].shift(-lookahead) / df['close'] - 1 at row i of n rows: the
\* quotient of the two closes is rounded, then its difference with 1; past
\* the end of the frame the shifted close, and with it the result, is NaN.
FutureReturn(close, i) ==
  IF i + Lookahead <= Len(close)
  THEN DSub(DDiv(DInt(close[i + Lookahead]), DInt(close[i])), One)
  ELSE NaN

\* The label of row i: 0 by default (line 156), 1 where future_return >
\* threshold and -1 where future_return < -threshold (lines 157-158),
\* compared as doubles; a comparison with NaN is false.
LabelAt(close, i) ==
  LET r == FutureReturn(close, i)
  IN  IF r.k = "nan" THEN HOLD
      ELSE IF XCmp(r, XNeg(Threshold)) < 0 THEN SELL
      ELSE IF XCmp(r, Threshold) > 0 THEN BUY
      ELSE HOLD

\* create_labels(df)
create_labels(f) ==
  [f EXCEPT !.stage = "labeled",
            !.future_return = [i \in 1..Len(f.close) |-> FutureReturn(f.close, i)],
            !.label = [i \in 1..Len(f.close) |-> LabelAt(f.close, i)],
            !.cols = f.cols \cup {"future_return", "label"}]

RECURSIVE DefinedRows(_, _)
\* The indices of rows 1..n whose future_return is defined, ascending.
DefinedRows(fr, n) ==
  IF n = 0 THEN << >>
  ELSE IF fr[n].k = "nan" THEN DefinedRows(fr, n - 1)
       ELSE Append(DefinedRows(fr, n - 1), n)

\* df.dropna() of the caller, after create_labels.
dropna(f) ==
  LET keep == DefinedRows(f.future_return, Len(f.close))
  IN  [f EXCEPT !.stage = "clean",
                !.close = [k \in 1..Len(keep) |-> f.close[keep[k]]],
                !.future_return = [k \in 1..Len(keep) |-> f.future_return[keep[k]]],
                !.label = [k \in 1..Len(keep) |-> f.label[keep[k]]]]

PrepareFeatures ==
  /\ df.stage = "fetched"
  /\ df' = prepare_features(df, taVolumeSma)
  /\ feature_columns' = FeatureColumns(df.raw, df.bars, taVolumeSma)
  /\ UNCHANGED << taVolumeSma, model, scaler, is_trained, trainRuns, completed,
                  last, bt, sent, sym >>

CreateLabels ==
  /\ df.stage = "prepared"
  /\ df' = create_labels(df)
  /\ UNCHANGED << taVolumeSma, model, scaler, is_trained, feature_columns,
                  trainRuns, completed, last, bt, sent, sym >>

DropNa ==
  /\ df.stage = "labeled"
  /\ df' = dropna(df)
  /\ UNCHANGED << taVolumeSma, model, scaler, is_trained, feature_columns,
                  trainRuns, completed, last, bt, sent, sym >>

(***************************************************************************)
(* The specification.                                                      *)
(***************************************************************************)
Init ==
  /\ taVolumeSma \in BOOLEAN
  /\ model = NoModel
  /\ scaler = NewScaler
  /\ is_trained = FALSE
  /\ feature_columns = << >>
  /\ trainRuns = 0
  /\ completed = {}
  /\ last = BlankLast
  /\ bt = Idle
  /\ df = NoFrame
  /\ sent = Idle
  /\ sym = NoSymbols

Next ==
  \/ TrainModel
  \/ GenerateSignal
  \/ BacktestStart
  \/ BacktestBar
  \/ BacktestReport

Spec == Init /\ [][Next]_vars

(***************************************************************************)
(* The service behind the API: the four methods the endpoints call, in any *)
(* order, in the deployed environment (the ta releases have no             *)
(* ta.volume.volume_sma).                                                  *)
(***************************************************************************)
HostInit ==
  /\ taVolumeSma = FALSE
  /\ model = NoModel
  /\ scaler = NewScaler
  /\ is_trained = FALSE
  /\ feature_columns = << >>
  /\ trainRuns = 0
  /\ completed = {}
  /\ last = BlankLast
  /\ bt = Idle
  /\ df = NoFrame
  /\ sent = Idle
  /\ sym = NoSymbols

HostNext ==
  \/ TrainModel
  \/ GenerateSignal
  \/ BacktestStart
  \/ BacktestBar
  \/ BacktestReport
  \/ AnalyzeStart
  \/ AnalyzeSymbol
  \/ AnalyzeFinish

HostSpec == HostInit /\ [][HostNext]_vars

(***************************************************************************)
(* Long backtest runs.  The same loop body and report, run over frames     *)
(* long enough for more than DetailLimit trades: the service has been      *)
(* trained once on a plain OHLC frame and backtest_strategy has reached    *)
(* its loop.  To keep the run count small the bars' inputs are narrowed:   *)
(* every bar carries a prediction that opens or reverses a position,       *)
(* entries are at the lower price, and at most MaxMovingTrades trades exit *)
(* at another price than they entered (a long exited higher: a win; a      *)
(* short exited higher: a loss).                                           *)
(***************************************************************************)
PlainOHLC == {"open", "high", "low", "close"}

LongRunTraining ==
  [data |-> "df", L |-> 154, raw |-> PlainOHLC, classes |-> {SELL, HOLD, BUY},
   raises |-> "none"]

\* Trades of ts closed at another price than their entry.
MovingTrades(ts) ==
  Cardinality({ k \in 1..Len(ts) : ts[k].exit_price # ts[k].entry_price })

\* The lower of the two closes.
LowPrice == CHOOSE p \in Prices : \A q \in Prices : XCmp(p, q) <= 0

\* The predictions and closes a bar of a long run may carry.
ReversingBars(b) ==
  LET budget == MovingTrades(b.trades) < MaxMovingTrades
      away   == Prices \ {LowPrice}
  IN  IF ~b.position.open
      THEN { [pred |-> BUY, price |-> LowPrice] } \cup
           (IF budget THEN { [pred |-> SELL, price |-> LowPrice] } ELSE {})
      ELSE IF b.position.type = "buy"
      THEN { [pred |-> SELL, price |-> LowPrice] } \cup
           (IF budget THEN [pred : {SELL}, price : away] ELSE {})
      ELSE [pred : {BUY}, price : away]

LongRunInit ==
  /\ taVolumeSma \in BOOLEAN
  /\ \E r \in { train_model([model |-> NoModel, scaler |-> NewScaler,
                               is_trained |-> FALSE, feature_columns |-> << >>],
                              LongRunTraining, 1, taVolumeSma) } :
       /\ model = r.model
       /\ scaler = r.scaler
       /\ is_trained = r.is_trained
       /\ feature_columns = r.feature_columns
  /\ trainRuns = 1
  /\ completed = {1}
  /\ last = [BlankLast EXCEPT !.op = "backtesting", !.wasTrained = TRUE]
  /\ \E k \in 0..MaxRoundTrips : bt = LoopStart(WarmupIndex + 2 * k)
  /\ df = NoFrame
  /\ sent = Idle
  /\ sym = NoSymbols

\* One iteration of the loop on a bar of a long run, whose feature rows are
\* all finite.
ReversingBar ==
  /\ bt.pc = "loop"
  /\ bt.i < bt.n
  /\ is_trained
  /\ ScalerTransforms(scaler, LatestFeatureColumns(Self), FALSE)
  /\ ModelPredicts(model, LatestFeatureColumns(Self))
  /\ \E bar \in ReversingBars(bt) :
       /\ bar.pred \in model.classes
       /\ bt' = BarStep(bt, bar.pred, bar.price)
  /\ last' = [last EXCEPT !.transformed = TRUE, !.predictCalled = TRUE,
                          !.inferred = TRUE,
                          !.usedCols = LatestFeatureColumns(Self),
                          !.usedScaler = scaler, !.usedModel = model]
  /\ UNCHANGED << taVolumeSma, model, scaler, is_trained, feature_columns,
                  trainRuns, completed, df, sent, sym >>

LongRunNext ==
  \/ ReversingBar
  \/ BacktestReport

LongRunSpec == LongRunInit /\ [][LongRunNext]_vars

(***************************************************************************)
(* The backtest loop of a trained service, over every series of            *)
(* predictions and closes of up to MaxRunBars bars: the service has been   *)
(* trained once on a plain OHLC frame and backtest_strategy has reached    *)
(* its loop.  The frames carry no tick_volume column, so line 97 is not    *)
(* reached and the ta library in use plays no part.                        *)
(***************************************************************************)
LoopInit ==
  /\ taVolumeSma = FALSE
  /\ \E r \in { train_model([model |-> NoModel, scaler |-> NewScaler,
                               is_trained |-> FALSE, feature_columns |-> << >>],
                              LongRunTraining, 1, taVolumeSma) } :
       /\ model = r.model
       /\ scaler = r.scaler
       /\ is_trained = r.is_trained
       /\ feature_columns = r.feature_columns
  /\ trainRuns = 1
  /\ completed = {1}
  /\ last = [BlankLast EXCEPT !.op = "backtesting", !.wasTrained = TRUE]
  /\ \E k \in 0..MaxRunBars : bt = LoopStart(WarmupIndex + k)
  /\ df = NoFrame
  /\ sent = Idle
  /\ sym = NoSymbols

LoopNext ==
  \/ BacktestBar
  \/ BacktestReport

LoopSpec == LoopInit /\ [][LoopNext]_vars

(***************************************************************************)
(* The frame pipeline on its own: a fetched frame is prepared, labeled and *)
(* cleaned, as train_model and backtest_strategy do before they look at    *)
(* its length.                                                             *)
(***************************************************************************)
PipelineInit ==
  /\ taVolumeSma \in BOOLEAN
  /\ model = NoModel
  /\ scaler = NewScaler
  /\ is_trained = FALSE
  /\ feature_columns = << >>
  /\ trainRuns = 0
  /\ completed = {}
  /\ last = BlankLast
  /\ bt = Idle
  /\ df \in FetchedFrames
  /\ sent = Idle
  /\ sym = NoSymbols

PipelineNext ==
  \/ PrepareFeatures
  \/ CreateLabels
  \/ DropNa

PipelineSpec == PipelineInit /\ [][PipelineNext]_vars

(***************************************************************************)
(* Signals of a trained service, for every set of label classes a         *)
(* training frame can hold: the service has been trained once, on a frame  *)
(* of any shape whose labels are the classes of any non-empty subset of    *)
(* {SELL, HOLD, BUY}, and generate_signal is called from then on.          *)
(***************************************************************************)
AllClassSets == (SUBSET {SELL, HOLD, BUY}) \ { {} }

SignalInit ==
  /\ taVolumeSma \in BOOLEAN
  /\ \E raw \in RawShapes, classes \in AllClassSets :
     \E r \in { train_model([model |-> NoModel, scaler |-> NewScaler,
                             is_trained |-> FALSE, feature_columns |-> << >>],
                            [LongRunTraining EXCEPT !.raw = raw,
                                                    !.classes = classes],
                            1, taVolumeSma) } :
       /\ model = r.model
       /\ scaler = r.scaler
       /\ is_trained = r.is_trained
       /\ feature_columns = r.feature_columns
       /\ last = [BlankLast EXCEPT !.op = "train", !.ok = r.ok, !.line = r.line,
                                   !.raised = r.raised,
                                   !.trainCalls = 1, !.trainOk = r.ok,
                                   !.trainLine = r.line]
  /\ trainRuns = 1
  /\ completed = {1}
  /\ bt = Idle
  /\ df = NoFrame
  /\ sent = Idle
  /\ sym = NoSymbols

SignalSpec == SignalInit /\ [][GenerateSignal]_vars

(***************************************************************************)
(* One service asked about several symbols.  `symbol` reaches only         *)
(* get_market_data, the log lines and the returned dict; the fields of the *)
(* service are not keyed by it.  sym records the symbol of the last call   *)
(* and the symbol of the train_model call that fitted the stored model.    *)
(* The frames are complete OHLCV frames, long enough for each method.      *)
(***************************************************************************)
Symbols == { "EURUSD", "GBPUSD" }

SymbolTrainInputs ==
  { NoTrainInput } \cup
  [data : {"df"}, L : {154}, raw : { {"open", "high", "low", "close", "tick_volume"} },
   classes : { {SELL, HOLD, BUY} }, raises : TrainRaises]

SymbolSignalInputs ==
  { NoSignalInput } \cup
  [data : {"df"}, L : {SignalBarCount},
   raw : { {"open", "high", "low", "close", "tick_volume"} },
   allNaN : {FALSE}, inf : {FALSE}, close : Prices, atr : { Dec(1, 1000) }]

\* The symbol whose training call fitted the model stored in svc1, the
\* fields after a call for `symbol` on the fields svc0: the call's symbol if
\* the call stored a forest and fitted it, "none" if it stored a forest
\* (line 202) that no call fitted, and as before if it stored none.
FittedFor(svc0, svc1, symbol) ==
  IF svc1.model = svc0.model THEN sym.fitted
  ELSE IF svc1.model.fitted THEN symbol
  ELSE "none"

\* train_model(symbol)
TrainModelFor ==
  /\ bt.pc = "idle" /\ sent.pc = "idle"
  /\ trainRuns < MaxTrainRuns
  /\ \E symbol \in Symbols, tin \in SymbolTrainInputs :
     \E r \in { train_model(Self, tin, trainRuns + 1, taVolumeSma) } :
       /\ model' = r.model
       /\ scaler' = r.scaler
       /\ is_trained' = r.is_trained
       /\ feature_columns' = r.feature_columns
       /\ trainRuns' = trainRuns + 1
       /\ completed' = IF r.ok THEN completed \cup {trainRuns + 1} ELSE completed
       /\ last' = [BlankLast EXCEPT !.op = "train", !.ok = r.ok, !.line = r.line,
                                    !.raised = r.raised,
                                    !.escaped = Escapes(r.raised),
                                    !.wasTrained = is_trained, !.trainCalls = 1,
                                    !.trainOk = r.ok, !.trainLine = r.line]
       /\ sym' = [call |-> symbol, fitted |-> FittedFor(Self, r, symbol)]
  /\ UNCHANGED << taVolumeSma, bt, df, sent >>

\* generate_signal(symbol)
GenerateSignalFor ==
  /\ bt.pc = "idle" /\ sent.pc = "idle"
  /\ is_trained \/ trainRuns < MaxTrainRuns
  /\ \E symbol \in Symbols :
     \E tin \in (IF is_trained THEN {NoTrainInput} ELSE SymbolTrainInputs) :
     \E t \in { TrainIfNeeded(Self, tin, trainRuns + 1, taVolumeSma) } :
     \E r \in SignalResults(t, SymbolSignalInputs) :
       /\ model' = r.svc.model
       /\ scaler' = r.svc.scaler
       /\ is_trained' = r.svc.is_trained
       /\ feature_columns' = r.svc.feature_columns
       /\ trainRuns' = trainRuns + r.last.trainCalls
       /\ completed' = IF r.last.trainCalls = 1 /\ r.last.trainOk
                       THEN completed \cup {trainRuns + 1} ELSE completed
       /\ last' = r.last
       /\ sym' = [call |-> symbol, fitted |-> FittedFor(Self, r.svc, symbol)]
  /\ UNCHANGED << taVolumeSma, bt, df, sent >>

SharedModelNext ==
  \/ TrainModelFor
  \/ GenerateSignalFor

SharedModelSpec == Init /\ [][SharedModelNext]_vars

(***************************************************************************)
(* analyze_market_sentiment alone, over lists with and without repeated    *)
(* symbols, on a service that starts untrained (each generate_signal call  *)
(* of the loop trains it if needed).                                       *)
(***************************************************************************)
SentimentNext ==
  \/ AnalyzeStartAny
  \/ AnalyzeSymbol
  \/ AnalyzeFinish

SentimentSpec == HostInit /\ [][SentimentNext]_vars

(***************************************************************************)
(* Signal levels (generate_signal, lines 255-275) over a wider range of    *)
(* closes and ATR values: ordinary prices, prices next to a power of two   *)
(* (where the spacing of the doubles changes) and ATR values from a        *)
(* thousandth of the price down to a fraction of the price's last place.   *)
(***************************************************************************)
\* 2^-52: the spacing of the doubles in [1, 2).
Ulp == Dyadic(1, << 1 >>, -52)

\* 1.1, 1.2, 0.9995, 1, 100, 2 - 2^-51 and 1 + k * 2^-52 for k = 6, 16..19.
LevelPrices ==
  Prices \cup { Dec(1999, 2000), One, Hundred, DSub(DInt(2), DMul(DInt(2), Ulp)) }
         \cup { DAdd(One, DMul(DInt(k), Ulp)) : k \in {6} \cup 16..19 }

\* 0, 0.001, 0.0015, 7/3 * 2^-52, (4 + 2^-51) / 3 (three times it is no
\* double) and n * 2^-55 for some n up to 32.
LevelAtrs ==
  AtrValues \cup { DDiv(DMul(DInt(7), Ulp), DInt(3)),
                   DDiv(XAdd(DInt(4), XMul(DInt(2), Ulp)), DInt(3)) }
            \cup { Dyadic(1, NatOf(n), -55) : n \in {1, 2, 3, 4, 5, 8, 12, 19, 32} }

\* The latest row's close and atr and the model's prediction, before the
\* levels are computed.
LevelInputs ==
  { [BlankLevels EXCEPT !.pred = pred, !.price = p, !.atr = a] :
      pred \in {BUY, SELL}, p \in LevelPrices, a \in LevelAtrs }

DoubleInit ==
  /\ taVolumeSma \in BOOLEAN
  /\ model = NoModel
  /\ scaler = NewScaler
  /\ is_trained = FALSE
  /\ feature_columns = << >>
  /\ trainRuns = 0
  /\ completed = {}
  /\ last \in { [BlankLast EXCEPT !.op = "levels_in", !.levels = x] :
                 x \in LevelInputs }
  /\ bt = Idle
  /\ df = NoFrame
  /\ sent = Idle
  /\ sym = NoSymbols

\* generate_signal from line 255 to line 275 on the drawn inputs.
SignalLevels ==
  /\ last.op = "levels_in"
  /\ \E lv \in { Levels(last.levels.pred, last.levels.price, last.levels.atr) } :
       last' = [last EXCEPT !.op = "levels",
                            !.levels.entry = lv.entry,
                            !.levels.stop = lv.stop,
                            !.levels.target = lv.target,
                            !.levels.rr = lv.rr]
  /\ UNCHANGED << taVolumeSma, model, scaler, is_trained, feature_columns,
                  trainRuns, completed, bt, df, sent, sym >>

DoubleSpec == DoubleInit /\ [][SignalLevels]_vars

(***************************************************************************)
(* Properties.                                                             *)
(***************************************************************************)
\* The stored triple and the flag are left as they were by this step.
TrainedStateUnchanged ==
  /\ model' = model
  /\ scaler' = scaler
  /\ feature_columns' = feature_columns
  /\ is_trained' = is_trained

\* The step is a call of train_model, on a service holding a trained model,
\* that returned False.
FailedTrainModelStep ==
  /\ is_trained
  /\ last'.op = "train"
  /\ trainRuns' = trainRuns + 1
  /\ ~last'.ok

\* C1: a train_model call that fails leaves the stored model, scaler,
\* feature-column list and is_trained exactly as they were before the call
\* (stated for a service that holds a trained model).
C1_FailedTrainingKeepsState ==
  [][FailedTrainModelStep => TrainedStateUnchanged]_vars

\* The last call handed a feature row to the stored scaler.
InferenceStarted ==
  /\ last.op \in {"generate", "backtest", "backtesting"}
  /\ last.transformed

\* C2: whenever an inference reads the stored scaler and model, both are
\* fitted and both come from one training run that returned success.
C2_InferenceSeesOneCompletedRun ==
  InferenceStarted =>
    /\ last.usedScaler.fitted
    /\ last.usedModel.kind = "rf" /\ last.usedModel.fitted
    /\ last.usedModel.run = last.usedScaler.run
    /\ last.usedModel.run \in completed

\* C3: on a trained service, a step in which train_model is not invoked (a
\* generate_signal call, any step of backtest_strategy) leaves the stored
\* model, scaler and feature-column list unchanged.
C3_OnlyTrainingWrites ==
  [][(is_trained /\ trainRuns' = trainRuns) =>
       /\ model' = model
       /\ scaler' = scaler
       /\ feature_columns' = feature_columns]_vars

\* C4: whenever the classifier returns a prediction (in generate_signal or
\* in a backtest bar), the column list the input row was built from equals,
\* in names and order, the list the stored scaler and the stored model were
\* fitted with.
C4_InferenceColumnsMatchFit ==
  last.inferred =>
    /\ last.usedCols = last.usedScaler.cols
    /\ last.usedCols = last.usedModel.cols

\* A generate_signal call on a service trained earlier, through a frame
\* showing the 18-column list, that returned a signal.
C4_Witness ==
  /\ last.op = "generate"
  /\ last.wasTrained
  /\ last.inferred
  /\ last.ok
  /\ Len(last.usedCols) = 18

\* C5: every BUY or SELL prediction of generate_signal yields a Signal (the
\* call returns None only for a HOLD prediction).
C5_NonHoldPredictionYieldsSignal ==
  (last.op = "generate" /\ last.inferred /\ last.prediction # HOLD) => last.ok

\* C6: a returned BUY signal has stop_loss < entry_price < take_profit and a
\* returned SELL signal has take_profit < entry_price < stop_loss.
C6_StopEntryTargetOrdered ==
  (last.op = "generate" /\ last.signal.present) =>
    /\ last.signal.type = "buy" =>
         /\ XCmp(last.signal.stop, last.signal.entry) < 0
         /\ XCmp(last.signal.entry, last.signal.target) < 0
    /\ last.signal.type = "sell" =>
         /\ XCmp(last.signal.target, last.signal.entry) < 0
         /\ XCmp(last.signal.entry, last.signal.stop) < 0

\* C7: generate_signal returns no signal when the latest ATR is 0: a
\* returned signal's risk_reward_ratio is a number, neither zero, infinite
\* nor NaN.
C7_NoDegenerateRatio ==
  (last.op = "generate" /\ last.signal.present) =>
    /\ last.signal.atr # Zero
    /\ last.signal.rr.k = "num"
    /\ last.signal.rr.s > 0

\* C8: a generate_signal call on an untrained service invokes train_model
\* once and before any inference step (the scaler and model it reads are
\* those of that run); if the training fails the call returns None without
\* fetching the recent window, transforming or predicting; if it succeeds
\* the call goes on to fetch the recent window.
C8_TrainsOnceThenInfers ==
  (last.op = "generate" /\ ~last.wasTrained) =>
    /\ last.trainCalls = 1
    /\ ~is_trained =>
         /\ ~last.trainOk
         /\ ~last.ok
         /\ ~last.fetched /\ ~last.transformed /\ ~last.predictCalled
    /\ is_trained => last.trainOk /\ last.fetched
    /\ last.transformed =>
         /\ last.usedScaler.run = trainRuns
         /\ last.usedModel.run = trainRuns

\* A generate_signal call that trained the service and returned a signal.
C8_Witness ==
  /\ last.op = "generate"
  /\ ~last.wasTrained
  /\ last.trainCalls = 1
  /\ last.ok

\* C9: in the backtest loop the positions opened so far exceed the
\* positions closed by one exactly when a position is open, and by none
\* otherwise: no position is opened while one is open.
C9_AtMostOneOpenPosition ==
  bt.pc = "loop" =>
    bt.opened - Len(bt.trades) = IF bt.position.open THEN 1 ELSE 0

\* A bar was processed with a non-HOLD prediction while a position opened
\* at an earlier bar stayed open.
C9_Witness ==
  /\ bt.pc = "loop"
  /\ bt.position.open
  /\ bt.position.entry_time < bt.i - 1
  /\ bt.pred # HOLD
  /\ bt.opened = 1

\* The prediction is the opposite direction of the position.
Reversal(pos, pred) ==
  \/ pos.type = "buy" /\ pred = SELL
  \/ pos.type = "sell" /\ pred = BUY

\* C10: a bar processed while a position is open closes it exactly when the
\* bar's prediction is the opposite direction (HOLD and same-direction
\* predictions leave it open), and every recorded trade has the exit reason
\* "Signal reversal".
C10_ClosedOnlyOnReversal ==
  /\ [][(bt.pc = "loop" /\ bt'.pc = "loop" /\ bt.position.open) =>
          /\ ~bt'.position.open <=> Reversal(bt.position, bt'.pred)
          /\ Len(bt'.trades) > Len(bt.trades) <=> Reversal(bt.position, bt'.pred)]_vars
  /\ [](bt.pc = "loop" =>
          \A k \in 1..Len(bt.trades) : bt.trades[k].exit_reason = "Signal reversal")

\* A position was closed, after having stayed open over a bar.
C10_Witness ==
  /\ bt.pc = "loop"
  /\ Len(bt.trades) = 1
  /\ ~bt.position.open
  /\ bt.trades[1].exit_time > bt.trades[1].entry_time + 1

\* The step closes the open position.
ClosesPosition == bt.pc = "loop" /\ bt'.pc = "loop" /\ bt.position.open /\ ~bt'.position.open

\* C11: on every close the recorded profit is (exit - entry) * size for a
\* long and (entry - exit) * size for a short, the balance grows by exactly
\* that profit (balance += profit), and exactly one trade is appended,
\* carrying the closed position's entry time, entry price and direction, the
\* bar's index and close as exit time and price, and the profit.  The
\* difference, the product and the sum are the program's float64 operations.
C11_CloseBooksProfit ==
  [][ClosesPosition =>
       LET pos  == bt.position
           t    == bt'.trades[Len(bt'.trades)]
           move == IF pos.type = "buy" THEN DSub(bt'.price, pos.entry_price)
                   ELSE DSub(pos.entry_price, bt'.price)
       IN  /\ Len(bt'.trades) = Len(bt.trades) + 1
           /\ SubSeq(bt'.trades, 1, Len(bt.trades)) = bt.trades
           /\ t.entry_time = pos.entry_time /\ t.entry_price = pos.entry_price
           /\ t.type = pos.type
           /\ t.exit_time = bt.i /\ t.exit_price = bt'.price
           /\ t.profit = DMul(move, pos.size)
           /\ bt'.balance = DAdd(bt.balance, t.profit)]_vars

\* A short was closed above its entry price after an earlier trade had moved
\* the balance: a loss was booked on a balance other than the initial one.
C11_Witness ==
  /\ bt.pc = "loop"
  /\ Len(bt.trades) = 2
  /\ bt.trades[1].profit.s # 0
  /\ bt.trades[2].type = "sell"
  /\ XCmp(bt.trades[2].exit_price, bt.trades[2].entry_price) > 0
  /\ bt.trades[2].profit.s < 0
  /\ XCmp(bt.balance, DAdd(StartingBalance, bt.trades[1].profit)) < 0

\* C12: in a run whose every prediction so far is BUY, exactly one position
\* has been opened, at index 50 of the usable rows, it is still open and no
\* trade is recorded; the report of such a run has 0 completed trades.
C12_AlwaysBuyHoldsOnePosition ==
  /\ [](bt.pc = "loop" /\ bt.seen = {BUY} =>
          /\ bt.opened = 1
          /\ bt.position.open /\ bt.position.type = "buy"
          /\ bt.position.entry_time = WarmupIndex
          /\ bt.trades = << >>)
  /\ [][(bt.pc = "loop" /\ bt.seen = {BUY} /\ bt'.pc = "idle" /\ last'.ok) =>
          /\ bt.position.open
          /\ ~last'.report.empty
          /\ last'.report.num_trades = 0
          /\ last'.report.trades = << >>]_vars

\* The series ended after BUY predictions on at least two bars.
C12_Witness ==
  /\ bt.pc = "loop"
  /\ bt.seen = {BUY}
  /\ bt.i = bt.n
  /\ bt.i >= WarmupIndex + 2

\* The step computes the report of a finished run.
ReportsRun == bt.pc = "loop" /\ bt'.pc = "idle" /\ last'.ok

RECURSIVE BookedBalance(_, _)
\* 10000 with the profits of the first n trades of ts added to it one by one,
\* in the order of the trades, each sum rounded to a double.
BookedBalance(ts, n) ==
  IF n = 0 THEN DInt(10000)
  ELSE DAdd(BookedBalance(ts, n - 1), ts[n].profit)

RECURSIVE ProfitTotal(_, _)
\* The profits of the first n trades of ts added up from 0 one by one, in the
\* order of the trades, each sum rounded to a double.
ProfitTotal(ts, n) ==
  IF n = 0 THEN Zero
  ELSE DAdd(ProfitTotal(ts, n - 1), ts[n].profit)

\* C13: the report's detail list holds the last min(10, num_trades)
\* completed trades in their order, while num_trades, winning_trades,
\* win_rate_pct, average_profit_per_trade and final_balance cover every
\* completed trade of the run: the counts are over all trades, the win rate
\* is their quotient times 100, the average is the sum of all profits over
\* their number, and final_balance is 10000 with every profit booked (all
\* in float64 arithmetic).
C13_DetailIsLastTenStatsCoverAll ==
  [][ReportsRun =>
       LET all  == bt.trades
           N    == Len(all)
           r    == last'.report
           K    == IF N < DetailLimit THEN N ELSE DetailLimit
           wins == Cardinality({ k \in 1..N : all[k].profit.s > 0 })
       IN  /\ Len(r.trades) = K
           /\ \A k \in 1..K : r.trades[k] = all[N - K + k]
           /\ r.num_trades = N
           /\ r.winning_trades = wins
           /\ N > 0 =>
                /\ r.win_rate_pct = DMul(DDiv(DInt(wins), DInt(N)), DInt(100))
                /\ r.average_profit_per_trade
                     = DDiv(ProfitTotal(all, N), DInt(N))
           /\ r.final_balance = bt.balance
           /\ r.final_balance = BookedBalance(all, N)]_vars

\* A report of more than ten trades, a winning one among those left out of
\* the detail list.
C13_Witness ==
  /\ last.op = "backtest"
  /\ last.ok
  /\ last.report.num_trades > DetailLimit
  /\ Len(last.report.trades) = DetailLimit
  /\ last.report.winning_trades > 0
  /\ \A k \in 1..Len(last.report.trades) : last.report.trades[k].profit.s <= 0

\* C14: when fewer than 50 usable rows remain, backtest_strategy returns the
\* empty report (no exception escapes) and the backtest endpoint answers
\* without an error.
C14_ThinHistoryDegradesGracefully ==
  (last.op = "backtest" /\ last.line = 365) =>
    /\ last.report.empty
    /\ backtest_endpoint(last.report).status = 200

\* C15: for every row with a known future, create_labels assigns BUY iff
\* close[i+lookahead]/close[i] - 1 > threshold, SELL iff it is < -threshold
\* and HOLD otherwise; a return equal to +threshold or -threshold is HOLD.
C15_LabelRuleBoundariesExclusive ==
  df.stage = "labeled" =>
    \A i \in 1..Len(df.close) :
      i + Lookahead <= Len(df.close) =>
        LET c    == df.close[i]
            f    == df.close[i + Lookahead]
            up   == (f - c) * ThresholdInv > c
            down == (f - c) * ThresholdInv < -c
        IN  /\ df.label[i] = BUY <=> up
            /\ df.label[i] = SELL <=> down
            /\ df.label[i] = HOLD <=> (~up /\ ~down)

\* C16: the last `lookahead` rows of create_labels' output carry no label,
\* and after the caller's dropna every row has a known future.
C16_LastRowsCarryNoLabel ==
  /\ df.stage = "labeled" =>
       \A i \in 1..Len(df.close) :
         i + Lookahead > Len(df.close) => i \notin DOMAIN df.label
  /\ df.stage = "clean" =>
       \A i \in 1..Len(df.close) : df.future_return[i].k = "num"

\* C17: prepare_features returns exactly L - max_lookback + 1 rows (0 when
\* L < max_lookback), max_lookback being the sma_50 window, in the original
\* order, and every returned row has a value for every feature the function
\* declares.
C17_PreparedRowCountExact ==
  df.stage = "prepared" =>
    LET K == Max(0, df.bars - LongestWindow + 1)
    IN  /\ Len(df.close) = K
        /\ \A i \in 1..K : df.close[i] = df.src[Len(df.src) - K + i]
        /\ SeqToSet(BaseFeatureColumns) \subseteq df.cols

\* The step is a train_model call, on a service holding a trained model,
\* that returned at `Insufficient data` (line 175) or `Insufficient clean
\* data` (line 186).
InsufficientDataStep ==
  /\ is_trained
  /\ last'.op = "train"
  /\ trainRuns' = trainRuns + 1
  /\ last'.line \in {175, 186}

\* C18: a train_model call that fails for insufficient data while a trained
\* model exists returns False and leaves is_trained true and the stored
\* model and scaler as they were.
C18_InsufficientDataKeepsModel ==
  [][InsufficientDataStep =>
       /\ ~last'.ok
       /\ is_trained'
       /\ model' = model
       /\ scaler' = scaler]_vars

\* A retraining that stopped at `Insufficient clean data` after it had
\* stored another column list: the fitted model and scaler are still there.
C18_Witness ==
  /\ last.op = "train"
  /\ last.wasTrained
  /\ last.line = 186
  /\ is_trained
  /\ model.fitted /\ scaler.fitted
  /\ model.run = scaler.run
  /\ feature_columns # model.cols

\* C20: whatever classes the classifier was fitted on, the confidence of a
\* returned signal is the probability predict_proba gave to the predicted
\* class (BUY for a buy signal, SELL for a sell signal), and it lies in
\* [0, 1].
C20_ConfidenceIsPredictedClassProbability ==
  (last.op = "generate" /\ last.signal.present) =>
    LET cls == SortedClasses(last.usedModel.classes)
    IN  /\ last.prediction = IF last.signal.type = "buy" THEN BUY ELSE SELL
        /\ \E k \in 1..Len(cls) :
             /\ cls[k] = last.prediction
             /\ last.signal.confidence = last.proba[k]
        /\ XCmp(last.signal.confidence, DInt(0)) >= 0
        /\ XCmp(last.signal.confidence, DInt(1)) <= 0

\* A buy signal from a classifier fitted on SELL and BUY only.
C20_Witness ==
  /\ last.op = "generate"
  /\ last.signal.present
  /\ last.usedModel.classes = {SELL, BUY}
  /\ last.prediction = BUY
  /\ last.signal.confidence = Dec(7, 10)

\* C19: no call of train_model, generate_signal, backtest_strategy or
\* analyze_market_sentiment ends by propagating an exception; a call in
\* which one was raised returns its failure value (False, None, the empty
\* report, the empty result) and leaves no call in progress, so that the
\* service takes later calls.
C19_NoFailureEscapes ==
  /\ ~last.escaped
  /\ last.raised # "none" =>
       /\ last.op \in { "train", "generate", "backtest", "sentiment" }
       /\ last.line \in { 224, 298, 349, 450 }
       /\ ~last.ok
       /\ ~last.signal.present
       /\ last.report.empty
       /\ last.sentiment.empty
       /\ bt.pc = "idle" /\ sent.pc = "idle"

\* generate_signal ended in its handler on the IndexError of
\* prediction_proba[1], returned None and left the service idle.
C19_Witness ==
  /\ last.op = "generate"
  /\ last.raised = "IndexError"
  /\ last.line = 298
  /\ ~last.escaped /\ ~last.ok
  /\ bt.pc = "idle" /\ sent.pc = "idle"

\* The levels of signal sg for entry price e and ATR a: 2 ATR to the stop,
\* 3 ATR to the target, on the side the direction gives, as float64
\* evaluates entry - 2 * atr and entry + 3 * atr.
LevelsFrom(sg, e, a) ==
  /\ sg.entry = e
  /\ sg.type \in { "buy", "sell" }
  /\ sg.type = "buy"  => /\ sg.stop = DSub(e, DMul(DInt(2), a))
                         /\ sg.target = DAdd(e, DMul(DInt(3), a))
  /\ sg.type = "sell" => /\ sg.stop = DAdd(e, DMul(DInt(2), a))
                         /\ sg.target = DSub(e, DMul(DInt(3), a))

\* C21: every returned signal has the close of the latest complete row as
\* its entry, and its stop and target are 2 and 3 times the ATR of that same
\* row away from it (below and above for BUY, above and below for SELL).
C21_LevelsFromLatestRow ==
  (last.op = "generate" /\ last.signal.present) =>
    /\ last.row.hasAtr
    /\ last.signal.atr = last.row.atr
    /\ LevelsFrom(last.signal, last.row.close, last.row.atr)

\* A sell signal built from a row with close 1.2 and ATR 0.001: the stop is
\* above the entry and the target below it.
C21_Witness ==
  /\ last.op = "generate"
  /\ last.signal.present
  /\ last.signal.type = "sell"
  /\ last.row = [close |-> Dec(6, 5), hasAtr |-> TRUE, atr |-> Dec(1, 1000)]
  /\ last.signal.entry = Dec(6, 5)
  /\ XCmp(last.signal.stop, last.signal.entry) > 0
  /\ XCmp(last.signal.target, last.signal.entry) < 0

\* A step that takes the backtest loop from one bar to the next.
BarProcessed == bt.pc = "loop" /\ bt'.pc = "loop" /\ bt'.i = bt.i + 1

\* C22: a bar opens a position exactly when its index is at least 50, no
\* position is open when it is processed and its prediction is not HOLD;
\* the position has the prediction's direction, the bar's close as entry
\* price, and a size of 0.1 times the balance then (10000 with the profits
\* of the trades closed so far booked) divided by that close, as float64
\* evaluates balance * 0.1 / close.
C22_OpensExactlyWhenFlatAndSignalled ==
  [][ BarProcessed =>
        LET opens == ~bt.position.open /\ bt'.position.open
        IN  /\ opens <=> /\ bt.i >= 50
                         /\ ~bt.position.open
                         /\ is_trained /\ bt'.pred # HOLD
            /\ opens =>
                 /\ bt'.position.type = IF bt'.pred = BUY THEN "buy" ELSE "sell"
                 /\ bt'.pred \in { BUY, SELL }
                 /\ bt'.position.entry_price = bt'.price
                 /\ bt'.position.entry_time = bt.i
                 /\ bt.balance = BookedBalance(bt.trades, Len(bt.trades))
                 /\ bt'.position.size
                      = DDiv(DMul(bt.balance, Dec(1, 10)), bt'.price)
    ]_vars

\* A position opened after a trade that changed the balance.
C22_Witness ==
  /\ bt.pc = "loop"
  /\ bt.position.open
  /\ bt.position.entry_time = bt.i - 1
  /\ Len(bt.trades) = 1
  /\ bt.trades[1].profit.s # 0
  /\ bt.balance # DInt(10000)
  /\ bt.position.entry_price = bt.price

\* C23: the service has one model for all symbols.  A generate_signal call
\* made after a train_model call has succeeded, for whatever symbol, makes
\* no training call, and what it transforms and predicts with are the
\* stored scaler and model, whichever symbol's call fitted them; a later
\* train_model call that succeeds, for whatever symbol, leaves its own
\* scaler and model as the stored ones.
C23_OneModelForAllSymbols ==
  /\ (last.op = "generate" /\ last.wasTrained) =>
       /\ last.trainCalls = 0
       /\ is_trained
       /\ last.transformed =>
            /\ last.usedModel = model
            /\ last.usedScaler = scaler
  /\ (last.op = "train" /\ last.ok) =>
       /\ model = FittedForest(trainRuns, feature_columns, model.classes)
       /\ scaler = ScalerAfterFit(trainRuns, feature_columns)
       /\ sym.fitted = sym.call
       /\ is_trained

\* A signal for one symbol from the model a second successful training, for
\* the other symbol, put in place of the first.
C23_Witness ==
  /\ last.op = "generate"
  /\ last.wasTrained /\ last.inferred /\ last.signal.present
  /\ completed = {1, 2}
  /\ last.usedModel.run = 2
  /\ sym.call = "GBPUSD" /\ sym.fitted = "EURUSD"

\* C24: in every report total_return_pct is (final - initial) / initial *
\* 100, win_rate_pct is winning_trades / num_trades * 100 and
\* average_profit_per_trade is the sum of the profits of all completed
\* trades over num_trades, each the double its expression yields when it is
\* evaluated left to right; a run without a completed trade reports 0 for
\* the last two, and the report is returned (nothing is divided by zero).
C24_ReportFormulas ==
  [][ReportsRun =>
       LET r == last'.report
           F == r.final_balance
           N == r.num_trades
       IN  /\ ~r.empty /\ last'.line = 446 /\ last'.raised = "none"
           /\ r.initial_balance = 10000
           /\ N = Len(bt.trades)
           /\ r.total_return_pct
                = DMul(DDiv(DSub(F, DInt(10000)), DInt(10000)), DInt(100))
           /\ N > 0 =>
                /\ r.win_rate_pct
                     = DMul(DDiv(DInt(r.winning_trades), DInt(N)), DInt(100))
                /\ r.average_profit_per_trade
                     = DDiv(ProfitTotal(bt.trades, N), DInt(N))
           /\ N = 0 =>
                /\ r.win_rate_pct = Zero
                /\ r.average_profit_per_trade = Zero
                /\ r.total_return_pct = Zero]_vars

\* A report of three trades, one of them won, with a balance that moved: the
\* win rate is 33.33333333333333, one place below the double nearest 100/3.
C24_Witness ==
  /\ last.op = "backtest" /\ last.ok
  /\ last.report.num_trades = 3
  /\ last.report.winning_trades = 1
  /\ last.report.win_rate_pct # Dec(100, 3)
  /\ last.report.total_return_pct.s # 0
  /\ last.report.average_profit_per_trade.s # 0

\* A step of backtest_strategy: it enters or continues the loop, or returns.
BacktestStep == last'.op = "backtest" \/ bt'.pc = "loop"

\* C25: backtest_strategy never trains: no step of it changes the model,
\* the scaler, is_trained or the number of training runs.  On an untrained
\* service with enough history every bar is skipped (only the index
\* moves), and the call returns a report that is not empty, with no trade,
\* no winning trade and final_balance = initial_balance = 10000, is_trained
\* still false.
C25_BacktestNeverTrains ==
  [][ BacktestStep =>
        /\ trainRuns' = trainRuns /\ completed' = completed
        /\ is_trained' = is_trained /\ model' = model /\ scaler' = scaler
        /\ (~is_trained /\ bt.pc = "loop") =>
             /\ bt'.pc = "loop" => bt' = [bt EXCEPT !.i = bt.i + 1]
             /\ bt'.pc = "loop" => ~bt'.position.open /\ bt'.trades = << >>
             /\ bt'.pc = "idle" =>
                  /\ last'.ok /\ ~last'.report.empty
                  /\ last'.report.num_trades = 0
                  /\ last'.report.winning_trades = 0
                  /\ last'.report.trades = << >>
                  /\ last'.report.final_balance = DInt(10000)
                  /\ last'.report.initial_balance = 10000
                  /\ ~last'.predictCalled /\ ~last'.transformed
                  /\ ~is_trained'
    ]_vars

\* The report of a backtest on an untrained service.
C25_Witness ==
  /\ last.op = "backtest" /\ last.ok
  /\ ~last.wasTrained /\ ~is_trained
  /\ trainRuns > 0 /\ completed = {}
  /\ ~last.report.empty
  /\ last.report.num_trades = 0
  /\ last.report.final_balance = DInt(10000)

\* The trades of ts are in time order: each exits after it was entered and
\* before the next one is entered.
Chronological(ts) ==
  \A k \in 1..Len(ts) :
    /\ ts[k].entry_time < ts[k].exit_time
    /\ k < Len(ts) => ts[k].exit_time < ts[k + 1].entry_time

\* C26: the bar that closes a position opens none, so the simulator is flat
\* after it; the completed trades are in time order, each exit strictly
\* after its entry and strictly before the next trade's entry, and an open
\* position was entered after the last exit.
C26_ClosingBarOpensNothing ==
  /\ bt.pc = "loop" =>
       LET N == Len(bt.trades)
       IN  /\ Chronological(bt.trades)
           /\ (N > 0 /\ bt.trades[N].exit_time = bt.i - 1) => ~bt.position.open
           /\ (N > 0 /\ bt.position.open) =>
                bt.trades[N].exit_time < bt.position.entry_time
           /\ bt.position.open => bt.position.entry_time < bt.i
  /\ (last.op = "backtest" /\ last.ok) => Chronological(last.report.trades)

\* The simulator is flat right after the bar that closed its third trade.
C26_Witness ==
  /\ bt.pc = "loop"
  /\ Len(bt.trades) = 3
  /\ bt.trades[3].exit_time = bt.i - 1
  /\ bt.trades[2].exit_time = bt.trades[3].entry_time - 1
  /\ ~bt.position.open
  /\ bt.pred # HOLD

RECURSIVE ExactProfit(_, _)
\* The sum of the profits of the first n trades of ts, as a real number.
ExactProfit(ts, n) ==
  IF n = 0 THEN Zero
  ELSE XAdd(ExactProfit(ts, n - 1), ts[n].profit)

\* 10000 plus the sum of the profits of the trades of ts, as a real number.
ExactBalance(ts) == XAdd(DInt(10000), ExactProfit(ts, Len(ts)))

RECURSIVE Booking(_, _)
\* The first n closes of ts in one pass: the balance booked (as
\* BookedBalance), and the sum of the sizes of the balances booked at each of
\* them.
Booking(ts, n) ==
  IF n = 0 THEN [balance |-> DInt(10000), total |-> Zero]
  ELSE LET b    == Booking(ts, n - 1)
           next == DAdd(b.balance, ts[n].profit)
       IN  [balance |-> next, total |-> XAdd(b.total, XAbs(next))]

\* The sum of the sizes of the balances booked at the closes of ts.
BookedTotal(ts) == Booking(ts, Len(ts)).total

\* x * 2^k
Scaled(x, k) == IF x.s = 0 THEN x ELSE [x EXCEPT !.e = x.e + k]

\* The balance moves at a close only: a bar that changes it closes the open
\* position and appends one trade, and a bar that appends none leaves it.
BalanceMovesAtCloseOnly ==
  BarProcessed =>
    /\ bt'.balance # bt.balance =>
         /\ bt.position.open /\ ~bt'.position.open
         /\ bt'.trades = Append(bt.trades, bt'.trades[Len(bt'.trades)])
    /\ bt'.trades = bt.trades => bt'.balance = bt.balance

\* C27 as stated: the balance is the initial 10000 plus the sum of the
\* profits of the completed trades, after every bar and in the report; a bar
\* changes it only by closing a position, and what an open position has
\* gained or lost by the end of the series is not in final_balance.
C27_BalanceIsInitialPlusRealized ==
  [][ /\ BalanceMovesAtCloseOnly
      /\ BarProcessed => bt'.balance = ExactBalance(bt'.trades)
      /\ ReportsRun =>
           /\ last'.report.initial_balance = 10000
           /\ last'.report.final_balance = ExactBalance(bt.trades)
    ]_vars

\* C27, amended: the balance is 10000 with the profits of the completed
\* trades added one by one in their order, each sum rounded to a double; it
\* is within 2^-53 times the sum of the balances so booked of 10000 plus the
\* exact sum of the profits.  A bar changes it only by closing a position,
\* and what an open position has gained or lost by the end of the series is
\* not in final_balance.
C27_BalanceIsProfitsBookedInOrder ==
  [][ /\ BalanceMovesAtCloseOnly
      /\ BarProcessed =>
           /\ bt'.balance = BookedBalance(bt'.trades, Len(bt'.trades))
           /\ XCmp(Scaled(XAbs(XSub(bt'.balance, ExactBalance(bt'.trades))), 53),
                   BookedTotal(bt'.trades)) <= 0
      /\ ReportsRun =>
           /\ last'.report.initial_balance = 10000
           /\ last'.report.final_balance = BookedBalance(bt.trades, Len(bt.trades))
    ]_vars

\* The loop has ended with two trades closed and a position open whose entry
\* price is not the last close; the balance is neither 10000 plus the exact
\* sum of the two profits, nor the double nearest to it, nor the double that
\* 10000 + (profit 1 + profit 2) yields.
C27_Witness ==
  /\ bt.pc = "loop"
  /\ bt.i = bt.n
  /\ Len(bt.trades) = 2
  /\ bt.position.open
  /\ bt.price # bt.position.entry_price
  /\ bt.balance # ExactBalance(bt.trades)
  /\ bt.balance # Round(ExactBalance(bt.trades))
  /\ bt.balance # DAdd(DInt(10000), ProfitTotal(bt.trades, 2))

\* The prediction of the bar just processed is the direction of pos.
OwnDirection(pos, pred) ==
  \/ pos.type = "buy" /\ pred = BUY
  \/ pos.type = "sell" /\ pred = SELL

\* C28: a position that is open before and after a bar is the same record
\* (direction, entry price, entry time, size), and a bar whose prediction is
\* HOLD, or the direction of the position open when it is processed, leaves
\* the balance, the trade list and the position as they were.
C28_OpenPositionIsFrozen ==
  [][ BarProcessed =>
        /\ (bt.position.open /\ bt'.position.open) =>
             /\ bt'.position.type = bt.position.type
             /\ bt'.position.entry_price = bt.position.entry_price
             /\ bt'.position.entry_time = bt.position.entry_time
             /\ bt'.position.size = bt.position.size
        /\ (\/ bt'.pred = HOLD
            \/ bt.position.open /\ OwnDirection(bt.position, bt'.pred)) =>
             /\ bt'.balance = bt.balance
             /\ bt'.trades = bt.trades
             /\ bt'.position = bt.position
    ]_vars

\* A position opened at an earlier bar is still open after a bar predicting
\* its own direction at another close.
C28_Witness ==
  /\ bt.pc = "loop"
  /\ bt.position.open
  /\ bt.position.entry_time < bt.i - 1
  /\ OwnDirection(bt.position, bt.pred)
  /\ bt.price # bt.position.entry_price

\* Levels were computed from an ATR above zero.
LevelsComputed == last.op = "levels" /\ last.levels.atr.s > 0

\* 3/2
ThreeHalves == Dec(3, 2)

\* |x|, x * y and |x - y| as real numbers.
Size(x) == XAbs(x)

Times(k, x) == XMul(DInt(k), x)

Distance(x, y) == XAbs(XSub(x, y))

\* x <= y
AtMost(x, y) == XCmp(x, y) <= 0

\* x is a double: a number with a significand of at most 53 bits.
IsDouble(x) == x.k = "num" /\ NatBitLen(x.m) <= 53

\* C29 as stated: every signal with ATR > 0 has a risk/reward ratio of
\* exactly 3/2, that is 2 * |take_profit - entry| = 3 * |entry - stop_loss|.
C29_RiskRewardExactlyThreeHalves ==
  LevelsComputed =>
    LET L == last.levels
    IN  /\ L.rr = ThreeHalves
        /\ Times(2, Distance(L.target, L.entry))
             = Times(3, Distance(L.entry, L.stop))

\* C29, amended: with S = entry -/+ 2 * ATR and T = entry +/- 3 * ATR the
\* exact levels (BUY; mirrored for SELL), stop_loss is a double within
\* 2^-53 * |S| of S and take_profit a double within 2^-53 * (|T| + 4 * ATR) of
\* T (3 * ATR is rounded before it is added), so that 2 * reward and 3 * risk
\* differ by at most 2^-53 * (2 * (|T| + 4 * ATR) + 3 * |S|), and are equal
\* when neither level was rounded.  risk_reward_ratio is the quotient of the
\* two distances as float64 gives it, each distance rounded first: exactly
\* 3/2 when neither level was rounded and 3 * ATR is a double, and inf or
\* nan, not a number, when the stop has rounded to the entry price.
C29_RiskRewardUpToRounding ==
  LevelsComputed =>
    LET L      == last.levels
        S      == IF L.pred = BUY THEN XSub(L.price, Times(2, L.atr))
                  ELSE XAdd(L.price, Times(2, L.atr))
        T      == IF L.pred = BUY THEN XAdd(L.price, Times(3, L.atr))
                  ELSE XSub(L.price, Times(3, L.atr))
        reward == Distance(L.target, L.entry)
        risk   == Distance(L.entry, L.stop)
        slackS == Size(S)
        slackT == XAdd(Size(T), Times(4, L.atr))
    IN  /\ L.entry = L.price
        /\ IsDouble(L.stop) /\ IsDouble(L.target)
        /\ AtMost(Scaled(Distance(L.stop, S), 53), slackS)
        /\ AtMost(Scaled(Distance(L.target, T), 53), slackT)
        /\ AtMost(Scaled(Distance(Times(2, reward), Times(3, risk)), 53),
                  XAdd(Times(2, slackT), Times(3, slackS)))
        /\ (L.stop = S /\ L.target = T) =>
             /\ Times(2, reward) = Times(3, risk)
             /\ IsDouble(Times(3, L.atr)) => L.rr = ThreeHalves
        /\ risk.s > 0 =>
             /\ L.rr.k = "num" /\ L.rr.s >= 0
             /\ L.rr = DDiv(Round(reward), Round(risk))
        /\ risk.s = 0 =>
             L.rr.k = IF reward.s = 0 THEN "nan" ELSE "inf"

\* A signal from a close of 0.9995 and an ATR of 0.001: the take-profit is
\* above 1, where doubles are twice as far apart as at the entry, and the
\* ratio is a number other than 3/2.
C29_Witness ==
  /\ LevelsComputed
  /\ last.levels.pred = BUY
  /\ last.levels.price = Dec(1999, 2000)
  /\ last.levels.atr = Dec(1, 1000)
  /\ XCmp(last.levels.target, DInt(1)) > 0
  /\ last.levels.rr.k = "num"
  /\ last.levels.rr # ThreeHalves
  /\ last.levels.stop # last.levels.entry

\* Positions of calls at which generate_signal returned a signal.
Signalled(calls) == { i \in 1..Len(calls) : calls[i].present }

RECURSIVE SumConfidence(_, _)
\* The confidences of the signals among the first n calls added up from 0
\* one by one, in the order of the calls, each sum rounded to a double.
SumConfidence(calls, n) ==
  IF n = 0 THEN Zero
  ELSE IF calls[n].present
       THEN DAdd(SumConfidence(calls, n - 1), calls[n].confidence)
       ELSE SumConfidence(calls, n - 1)

\* The mean confidence of the signals among calls as float64 gives it (that
\* sum over their number), 0 when there are none.
MeanConfidence(calls) ==
  IF Signalled(calls) = {} THEN Zero
  ELSE DDiv(SumConfidence(calls, Len(calls)), DInt(Cardinality(Signalled(calls))))

\* The last call for symbol s that returned a signal.
LastSignalled(calls, s) ==
  CHOOSE i \in Signalled(calls) :
    /\ calls[i].symbol = s
    /\ \A j \in Signalled(calls) : calls[j].symbol = s => j <= i

\* The step returns sentiment_data from the end of the loop.
SentimentReturned == sent.pc = "loop" /\ sent'.pc = "idle" /\ last'.ok

\* The step is one pass of the loop, for the symbol at the head of todo.
SymbolAnalysed == sent.pc = "loop" /\ sent'.pc = "loop"

\* The counts of sentiment_data against the calls made, and a call that
\* returned None leaving every count as it was.
CountsMatchCalls ==
  /\ SentimentReturned =>
       LET c == sent.calls
           r == last'.sentiment
       IN  /\ r.neutral_signals = 0
           /\ r.bullish_signals
                = Cardinality({ i \in Signalled(c) : c[i].type = "buy" })
           /\ r.bearish_signals
                = Cardinality({ i \in Signalled(c) : c[i].type = "sell" })
           /\ r.bullish_signals + r.bearish_signals = Cardinality(Signalled(c))
           /\ r.average_confidence = MeanConfidence(c)
           /\ XCmp(r.average_confidence, DInt(0)) >= 0
           /\ XCmp(r.average_confidence, DInt(1)) <= 0
  /\ (SymbolAnalysed /\ ~sent'.calls[Len(sent'.calls)].present) =>
       /\ sent'.bullish_signals = sent.bullish_signals
       /\ sent'.bearish_signals = sent.bearish_signals
       /\ sent'.neutral_signals = sent.neutral_signals
       /\ sent'.signal_count = sent.signal_count
       /\ sent'.total_confidence = sent.total_confidence

\* C30 as stated: neutral_signals is 0, bullish + bearish is the number of
\* calls that returned a signal, average_confidence is the mean confidence of
\* those signals (0 without any), and a symbol for which generate_signal
\* returned None is in no count and not in symbol_analysis.
C30_NoneSymbolNotInAnalysis ==
  [][ /\ CountsMatchCalls
      /\ SentimentReturned =>
           \A i \in 1..Len(sent.calls) :
             ~sent.calls[i].present =>
                sent.calls[i].symbol \notin DOMAIN last'.sentiment.symbol_analysis
    ]_vars

\* C30, amended: the counts and the average as stated, the average being the
\* confidences added in call order and divided by their number in float64
\* arithmetic; a call that returned None changes no count and adds no
\* entry, and symbol_analysis has one entry for each symbol with at least
\* one call that returned a signal: the signal of the last such call.
C30_CountsFollowReturnedSignals ==
  [][ /\ CountsMatchCalls
      /\ (SymbolAnalysed /\ ~sent'.calls[Len(sent'.calls)].present) =>
           sent'.symbol_analysis = sent.symbol_analysis
      /\ SentimentReturned =>
           LET c == sent.calls
               a == last'.sentiment.symbol_analysis
           IN  /\ DOMAIN a = { c[i].symbol : i \in Signalled(c) }
               /\ \A s \in DOMAIN a : a[s] = c[LastSignalled(c, s)].signal
    ]_vars

\* The loop has ended over a list naming one symbol twice: the first call
\* returned a signal, the second None, and the symbol is in symbol_analysis.
C30_Witness ==
  /\ sent.pc = "loop"
  /\ sent.todo = << >>
  /\ Len(sent.calls) = 2
  /\ sent.calls[1].symbol = sent.calls[2].symbol
  /\ sent.calls[1].present
  /\ ~sent.calls[2].present
  /\ sent.signal_count = 1
  /\ DOMAIN sent.symbol_analysis = { sent.calls[1].symbol }
  /\ sent.symbol_analysis[sent.calls[1].symbol] = sent.calls[1].signal

====
